---------------------------- MODULE Spec2Model ----------------------------
(***************************************************************************)
(* Join-order search of the parallel optimizer:                            *)
(*   src/backend/optimizer/path/allpaths.c      (parallel_join_search,     *)
(*       worker, try_splits, try_splits_b, make_rel_from_joinlist, ...)    *)
(*   src/backend/optimizer/parallel/parallel_worker.c (the same worker     *)
(*       code, kept in its own file)                                       *)
(*                                                                         *)
(* Lists of the source are sequences; a bitmap is a natural                 *)
(* number; a RelOptInfo is a record [bm, cost, l, r] (relids as a bitmap,  *)
(* cheapest_total_path->total_cost, and the bitmaps of the two inputs of   *)
(* the join that built it, 0/0 for an input relation); NULL is the null    *)
(* pointer.                                                                *)
(***************************************************************************)
EXTENDS Integers, Sequences, FiniteSets, TLC

(***************************************************************************)
(* Bounds of the model.                                                    *)
(***************************************************************************)
\* largest number of relations whose DP table is built
MaxN == 4
\* largest worker count handed to parallel_join_search
MaxW == 4
\* number of cost tables of the oracle family (seeds 0..MaxSeed)
MaxSeed == 2

\* the width of the int used as bitmap ("we can handle joins of atmost 32 tables")
IntBits == 32

\* the null pointer, as a record so that it compares with every RelOptInfo
NULL == [bm |-> -1, cost |-> 0, l |-> 0, r |-> 0]

(***************************************************************************)
(* Bitmaps: 1 << i, bit test, bitmap |= (1 << i), bitmap & ~(1 << i).      *)
(***************************************************************************)
RECURSIVE Pow2(_)
Pow2(i) == IF i = 0 THEN 1 ELSE 2 * Pow2(i - 1)

Bit(i) == Pow2(i)

HasBit(bm, i) == (bm \div Pow2(i)) % 2 = 1

OrBit(bm, i) == IF HasBit(bm, i) THEN bm ELSE bm + Pow2(i)

ClearBit(bm, i) == IF HasBit(bm, i) THEN bm - Pow2(i) ELSE bm

\* the ordinals below n whose bit is set
BitsOf(bm, n) == {i \in 0..(n - 1) : HasBit(bm, i)}

RECURSIVE ListBitmap(_)
\* for(...) bitmap |= (1 << list_nth_int(L, j));
ListBitmap(L) == IF L = <<>> THEN 0 ELSE OrBit(ListBitmap(Tail(L)), Head(L))

SeqToSet(s) == {s[k] : k \in 1..Len(s)}

RECURSIVE Flatten(_)
Flatten(ss) == IF ss = <<>> THEN <<>> ELSE Head(ss) \o Flatten(Tail(ss))

(***************************************************************************)
(* part_constraints / part_constraints_b                                   *)
(***************************************************************************)
RECURSIVE NumConstr(_, _)
\* the number of iterations of for(i = 0; (1 << i) < n_workers; i++)
NumConstr(i, n_workers) ==
  IF Pow2(i) < n_workers THEN NumConstr(i + 1, n_workers) ELSE i

\* the selector had it read bit 0 of part_id for every group
SelectLowest(part_id, i) == IF HasBit(part_id, 0) THEN 1 ELSE 0

\* part_id & (1 << i)
Select(part_id, i) == IF HasBit(part_id, i) THEN Pow2(i) ELSE 0

part_constraints(levels_needed, part_id, n_workers) ==
  [k \in 1..NumConstr(0, n_workers) |->
     LET i == k - 1 IN
     IF Select(part_id, i) > 0 THEN <<2 * i + 1, 2 * i>>
                               ELSE <<2 * i, 2 * i + 1>>]

part_constraints_b(levels_needed, part_id, n_workers) ==
  [k \in 1..NumConstr(0, n_workers) |->
     LET i == k - 1 IN
     IF Select(part_id, i) > 0 THEN <<3 * i + 1, 3 * i, 3 * i + 2>>
                               ELSE <<3 * i, 3 * i + 1, 3 * i + 2>>]

(***************************************************************************)
(* constrained_power_set / constrained_power_set_b                         *)
(***************************************************************************)
\* the flag the scan of constr leaves for q1: cleared when some constraint has
\* q1 as its second element
IncludeQ1(constr, q1, q2) ==
  ~ \E k \in 1..Len(constr) : constr[k][2] = q1

\* the scan had it never clear the flag of q2
IncludeQ2Always(constr, q1, q2) == TRUE

\* the else-if arm: cleared when a constraint whose second element is not q1
\* has q2 as its second element
IncludeQ2(constr, q1, q2) ==
  ~ \E k \in 1..Len(constr) : constr[k][2] # q1 /\ constr[k][2] = q2

constrained_power_set(constr, q1, q2) ==
  (IF IncludeQ1(constr, q1, q2) THEN << <<q1>> >> ELSE <<>>)
  \o (IF IncludeQ2(constr, q1, q2) THEN << <<q2>> >> ELSE <<>>)
  \o << <<q1, q2>> >>

constrained_power_set_b(constr, q1, q2, q3) ==
  << <<q1>>, <<q2>>, <<q3>>, <<q1, q2>> >>
  \o (IF IncludeQ1(constr, q1, q2) THEN << <<q1, q3>> >> ELSE <<>>)
  \o (IF IncludeQ2(constr, q1, q2) THEN << <<q2, q3>> >> ELSE <<>>)
  \o << <<q1, q2, q3>> >>

(***************************************************************************)
(* cartesian_product: the copies of a, the copies of b, then for every     *)
(* element of b (outer loop) and every element of a (inner loop) the       *)
(* concatenation b[i] . a[j].                                              *)
(***************************************************************************)
copy_concat_int(a, b) == a \o b

cartesian_product(a, b) ==
  IF a = <<>> THEN b
  ELSE IF b = <<>> THEN a
  ELSE a \o b
       \o Flatten([i \in 1..Len(b) |->
                     [j \in 1..Len(a) |-> copy_concat_int(b[i], a[j])]])

(***************************************************************************)
(* adm_join_results / adm_join_results_b                                   *)
(***************************************************************************)
RECURSIVE AdmLoop(_, _, _, _)
\* for(i = 0; 2*i + 1 < levels_needed; i++)
AdmLoop(i, levels_needed, constr, join_res) ==
  IF 2 * i + 1 < levels_needed
  THEN AdmLoop(i + 1, levels_needed, constr,
               cartesian_product(join_res,
                                 constrained_power_set(constr, 2 * i, 2 * i + 1)))
  ELSE join_res

adm_join_results(levels_needed, constr) == AdmLoop(0, levels_needed, constr, <<>>)

RECURSIVE AdmLoopB(_, _, _, _)
\* for(i = 0; 3*i + 2 < levels_needed; i++)
AdmLoopB(i, levels_needed, constr, join_res) ==
  IF 3 * i + 2 < levels_needed
  THEN AdmLoopB(i + 1, levels_needed, constr,
                cartesian_product(join_res,
                   constrained_power_set_b(constr, 3 * i, 3 * i + 1, 3 * i + 2)))
  ELSE join_res

adm_join_results_b(levels_needed, constr) ==
  AdmLoopB(0, levels_needed, constr, <<>>)

(***************************************************************************)
(* list_qsort(join_res, ptr_less): ascending by list_length.  Lists of     *)
(* equal length keep their relative order (they are independent of each    *)
(* other in the DP: a set reads only entries of strictly smaller sets).    *)
(***************************************************************************)
RECURSIVE SortFrom(_, _, _)
SortFrom(k, maxlen, join_res) ==
  IF k > maxlen THEN <<>>
  ELSE SelectSeq(join_res, LAMBDA q : Len(q) = k) \o SortFrom(k + 1, maxlen, join_res)

\* the list had it stay in the order adm_join_results built it
list_unsorted(join_res, levels_needed) == join_res

list_qsort(join_res, levels_needed) == SortFrom(0, levels_needed, join_res)

(***************************************************************************)
(* The cost oracle: make_join_rel, generate_*_paths, set_cheapest.         *)
(* An oracle is [links, seed]: links names the pairs of relations a join   *)
(* clause links ("full": every pair, "chain": ordinals i and i+1, "none";   *)
(* "lefthand": every pair, but relation 0 is legal on the left side of a   *)
(* join only), seed selects one cost table of a family.                    *)
(***************************************************************************)
CostMod == 5

Links == {"full", "chain", "none", "lefthand", "islands"}

Oracles == [links : Links, seed : 0..MaxSeed]

\* tryJoin's legality: some relation of the left side is linked to some
\* relation of the right side
Linked(links, lbm, rbm, n) ==
  CASE links = "full" -> TRUE
    [] links = "none" -> FALSE
    [] links = "lefthand" -> ~ HasBit(rbm, 0)
    [] links = "islands" -> \E a \in BitsOf(lbm, n), b \in BitsOf(rbm, n) :
                              a \div 2 = b \div 2
    [] OTHER -> \E a \in BitsOf(lbm, n), b \in BitsOf(rbm, n) :
                   a = b + 1 \/ b = a + 1

\* the cost the oracle's table gives the join step of lbm with rbm
Weight(seed, lbm, rbm) ==
  1 + ((seed + 2 * lbm + 4 * rbm + lbm * rbm * (seed + 2)) % CostMod)

\* make_join_rel(root, l_splt, r_splt) on two relations, followed by
\* set_cheapest: a relation over the union, or NULL for an illegal join
make_join_rel(orc, n, l_splt, r_splt) ==
  IF Linked(orc.links, l_splt.bm, r_splt.bm, n)
  THEN [bm   |-> l_splt.bm + r_splt.bm,
        cost |-> l_splt.cost + r_splt.cost + Weight(orc.seed, l_splt.bm, r_splt.bm),
        l    |-> l_splt.bm,
        r    |-> r_splt.bm]
  ELSE NULL

\* list_nth(initial_rels, i)
InitialRel(i) == [bm |-> Pow2(i), cost |-> 1, l |-> 0, r |-> 0]

(***************************************************************************)
(* try_splits: the scan of sub_rels and constr (bitmap, present, valid),   *)
(* then the candidates in the order the loop visits them.  g[k] is what a  *)
(* read of present[] past its levels_needed elements yields for the k-th   *)
(* constraint.                                                             *)
(***************************************************************************)
Present(sub_rels, q, n, gk) ==
  IF q < n THEN q \in SeqToSet(sub_rels) ELSE gk

\* constraint k marks its first element: present[q1] && present[q2]
Marks(sub_rels, constr, n, g, k) ==
  /\ Present(sub_rels, constr[k][1], n, g[k])
  /\ Present(sub_rels, constr[k][2], n, g[k])

\* valid[] had the scan marked the second element of a constraint
ValidRightSecond(sub_rels, constr, n, g, u) ==
  ~ \E k \in 1..Len(constr) : Marks(sub_rels, constr, n, g, k) /\ constr[k][2] = u

\* valid[u] after the scan of the constraints
ValidRight(sub_rels, constr, n, g, u) ==
  ~ \E k \in 1..Len(constr) : Marks(sub_rels, constr, n, g, k) /\ constr[k][1] = u

\* valid[q1] = false is written past the end of valid[]
WritesOutOfBounds(sub_rels, constr, n, g) ==
  \E k \in 1..Len(constr) : Marks(sub_rels, constr, n, g, k) /\ constr[k][1] >= n

\* some read of present[] is past its end
ReadsOutOfBounds(constr, n) ==
  \E k \in 1..Len(constr) : constr[k][1] >= n \/ constr[k][2] >= n

\* the loop had it put the single relation on the left
SplitCandidatesSwapped(sub_rels, constr, n, g) ==
  LET bitmap == ListBitmap(sub_rels)
      tried_u == SelectSeq(sub_rels,
                           LAMBDA u : ValidRight(sub_rels, constr, n, g, u))
  IN [k \in 1..Len(tried_u) |->
        [l |-> Pow2(tried_u[k]), r |-> ClearBit(bitmap, tried_u[k])]]

SplitCandidates(sub_rels, constr, n, g) ==
  LET bitmap == ListBitmap(sub_rels)
      tried  == SelectSeq(sub_rels,
                          LAMBDA u : ValidRight(sub_rels, constr, n, g, u))
  IN [k \in 1..Len(tried) |->
        [l |-> ClearBit(bitmap, tried[k]), r |-> Pow2(tried[k])]]

(***************************************************************************)
(* try_splits_b: the list Spower of one group, for a group with a          *)
(* constraint entry (q1, q2, q3) and for a group without, then the list A  *)
(* of left sides and the candidates (bitmapl, bitmap - bitmapl).           *)
(***************************************************************************)
SpowerConstrained(q1, q2, q3, S) ==
  LET q1pres == q1 \in S
      q2pres == q2 \in S
      q3pres == q3 \in S
  IN IF q3pres
     THEN << <<q3>> >>
          \o (IF q2pres
              THEN << <<q2>> >>
                   \o (IF q1pres
                       THEN << <<q1, q2>>, <<q1, q3>>, <<q1, q2, q3>> >>
                       ELSE <<>>)
              ELSE IF q1pres THEN << <<q1>>, <<q1, q3>> >> ELSE <<>>)
     ELSE IF q2pres
          THEN << <<q2>> >>
               \o (IF q1pres THEN << <<q1, q2>>, <<q1>> >> ELSE <<>>)
          ELSE IF q1pres THEN << <<q1>> >> ELSE <<>>

SpowerFree(q1, q2, q3, S) ==
  LET q1pres == q1 \in S
      q2pres == q2 \in S
      q3pres == q3 \in S
  IN IF q3pres
     THEN << <<q3>> >>
          \o (IF q2pres
              THEN << <<q2>>, <<q2, q3>> >>
                   \o (IF q1pres
                       THEN << <<q1>>, <<q1, q2>>, <<q1, q3>>, <<q1, q2, q3>> >>
                       ELSE <<>>)
              ELSE IF q1pres THEN << <<q1>>, <<q1, q3>> >> ELSE <<>>)
     ELSE IF q2pres
          THEN << <<q2>> >>
               \o (IF q1pres THEN << <<q1, q2>>, <<q1>> >> ELSE <<>>)
          ELSE IF q1pres THEN << <<q1>> >> ELSE <<>>

RECURSIVE LeftSides(_, _, _, _, _)
\* for (i = 0; 3*i+2 < n; i++) A = cartesian_product(A, Spower)
LeftSides(i, n, sub_rels, constr, A) ==
  IF 3 * i + 2 < n
  THEN LET S == SeqToSet(sub_rels)
           Spower == IF i < Len(constr)
                     THEN SpowerConstrained(constr[i + 1][1], constr[i + 1][2],
                                            constr[i + 1][3], S)
                     ELSE SpowerFree(3 * i, 3 * i + 1, 3 * i + 2, S)
       IN LeftSides(i + 1, n, sub_rels, constr, cartesian_product(A, Spower))
  ELSE A

\* the candidate loop had it keep the empty and the full left side
SplitCandidatesBAll(sub_rels, constr, n) ==
  LET bitmap == ListBitmap(sub_rels)
      A      == LeftSides(0, n, sub_rels, constr, <<>>)
  IN [k \in 1..Len(A) |->
        [l |-> ListBitmap(A[k]), r |-> bitmap - ListBitmap(A[k])]]

SplitCandidatesB(sub_rels, constr, n) ==
  LET bitmap == ListBitmap(sub_rels)
      A      == LeftSides(0, n, sub_rels, constr, <<>>)
      kept   == SelectSeq(A, LAMBDA L : ListBitmap(L) # 0 /\ ListBitmap(L) # bitmap)
  IN [k \in 1..Len(kept) |->
        [l |-> ListBitmap(kept[k]), r |-> bitmap - ListBitmap(kept[k])]]

(***************************************************************************)
(* "Set the better result in the DP Table": what the two-armed if does     *)
(* when both pointers it reads are relations.                              *)
(***************************************************************************)
\* the comparison turned round: the dearer relation is kept
BetterKeepsDearer(old, join_rel) ==
  IF old = NULL THEN join_rel
  ELSE IF old.cost < join_rel.cost THEN join_rel
  ELSE old

\* the comparison made non-strict: a relation of equal cost replaces the entry
BetterOrEqual(old, join_rel) ==
  IF old = NULL THEN join_rel
  ELSE IF old.cost >= join_rel.cost THEN join_rel
  ELSE old

Better(old, join_rel) ==
  IF old = NULL THEN join_rel
  ELSE IF old.cost > join_rel.cost THEN join_rel
  ELSE old

(***************************************************************************)
(* State.                                                                  *)
(***************************************************************************)
VARIABLES
  entry,          \* the function the planner called
  levels_needed,  \* list_length(joinlist) / the argument levels_needed
  n_workers,      \* argument n_workers of parallel_join_search (0: not called)
  p_type,         \* argument p_type (2: left deep, 3: bushy; 0: not called)
  oracle,         \* the cost oracle behind make_join_rel
  hook,           \* join_search_hook != NULL
  geqo,           \* [enable |-> enable_geqo, threshold |-> geqo_threshold]
  opc,            \* where the calling thread is
  oi,             \* its loop variable i (parallel_join_search), lev (standard)
  items,          \* the part_ids of the items[] slots written so far
  optimal,        \* RelOptInfo * optimal
  optw,           \* the worker whose output optimal points into (-1: none)
  root,           \* the caller's PlannerInfo: [src, njoin]
  ret,            \* what the entry function returned ("pending" before)
  retrel,         \* the relation returned
  levels,         \* standard_join_search: levels at which a join rel was built
  mutex,          \* pthread mutex: -1 when free, else the worker holding it
  wpc,            \* per worker: where the thread is
  wroot,          \* per worker: root_cpy, the PlannerInfo copy it works on
  constr,         \* per worker: its constraint list
  join_res,       \* per worker: its admissible sets, sorted
  P,              \* per worker: the DP table
  si,             \* per worker: index into join_res
  cands,          \* per worker: the candidate splits of the set being split
  ci,             \* per worker: index into cands
  output,         \* per worker: the worker_output it returned
  bt,             \* parallel_eval: the guide tree
  desire,         \* parallel_eval: what desirable_join answers from
  epc,            \* parallel_eval: where the evaluation is
  eroot,          \* parallel_eval: [join_rel_list, join_rel_hash] of root
  saved,          \* parallel_eval: [length |-> savelength, hash |-> savehash]
  relList,        \* construct_rel_based_on_plan: relList
  frelList,       \* construct_rel_based_on_plan: frelList
  fi,             \* construct_rel_based_on_plan: position of lc in relList
  clump,          \* force_merge_clump: its argument rel
  tried,          \* try_merge_clump: the pairs handed to make_join_rel
  outcomes        \* parallel_eval: what each call returned

vars == <<entry, levels_needed, n_workers, p_type, oracle, hook, geqo, opc, oi,
          items, optimal, optw, root, ret, retrel, levels, mutex, wpc, wroot,
          constr, join_res, P, si, cands, ci, output, bt, desire, epc, eroot,
          saved, relList, frelList, fi, clump, tried, outcomes>>

\* the state of parallel_eval
evalVars == <<bt, desire, epc, eroot, saved, relList, frelList, fi, clump,
              tried, outcomes>>

\* the arguments of the entry function
args == <<entry, levels_needed, oracle, hook, geqo>>

\* what the join search never writes: its arguments, and the state of
\* parallel_eval, which it does not call
inputs == <<args, evalVars>>

callerVars == <<opc, oi, items, optimal, optw, root, ret, retrel, levels>>

workerVars == <<mutex, wpc, wroot, constr, join_res, P, si, cands, ci, output>>

Workers == 0..(MaxW - 1)

\* the numbers of relations the model builds DP tables for, the two largest
\* the bitmap has a bit for, and two past the width of the bitmap
NValues == (0..MaxN) \cup {IntBits - 1, IntBits, IntBits + 1, IntBits + 2}

\* a DP table can be built (1 << levels_needed does not overflow)
Narrow(n) == n < IntBits - 1

FullBitmap(n) == Pow2(n) - 1

NoOutput == [optimal |-> NULL, root |-> [src |-> -1, njoin |-> 0]]

InitCommon ==
  /\ oracle \in Oracles
  /\ oi = 0
  /\ items = <<>>
  /\ optimal = NULL
  /\ optw = -1
  /\ root = [src |-> -1, njoin |-> 0]
  /\ ret = "pending"
  /\ retrel = NULL
  /\ levels = {}
  /\ mutex = -1
  /\ wpc = [w \in Workers |-> "none"]
  /\ wroot = [w \in Workers |-> [src |-> -1, njoin |-> 0]]
  /\ constr = [w \in Workers |-> <<>>]
  /\ join_res = [w \in Workers |-> <<>>]
  /\ P = [w \in Workers |-> <<>>]
  /\ si = [w \in Workers |-> 0]
  /\ cands = [w \in Workers |-> <<>>]
  /\ ci = [w \in Workers |-> 0]
  /\ output = [w \in Workers |-> NoOutput]

\* the planner calls make_rel_from_joinlist with a joinlist of any length
InitMakeRel ==
  /\ entry = "make_rel_from_joinlist"
  /\ levels_needed \in NValues
  /\ hook \in BOOLEAN
  /\ geqo \in [enable : BOOLEAN, threshold : {2, 12}]
  /\ n_workers = 0
  /\ p_type = 0
  /\ opc = "make_rel"

\* parallel_join_search called with its own arguments
InitSearch ==
  /\ entry = "parallel_join_search"
  /\ levels_needed \in NValues \ {0}
  /\ n_workers \in 1..MaxW
  /\ p_type \in {2, 3}
  /\ hook = FALSE
  /\ geqo = [enable |-> FALSE, threshold |-> 12]
  /\ opc = "create"

\* parallel_eval is not called
InitNoEval ==
  /\ bt = <<0>>
  /\ desire = "none"
  /\ epc = "none"
  /\ eroot = [join_rel_list |-> <<>>, join_rel_hash |-> 0]
  /\ saved = [length |-> 0, hash |-> 0]
  /\ relList = <<>>
  /\ frelList = <<>>
  /\ fi = 0
  /\ clump = NULL
  /\ tried = <<>>
  /\ outcomes = <<>>

Init == InitCommon /\ InitNoEval /\ (InitMakeRel \/ InitSearch)

(***************************************************************************)
(* make_rel_from_joinlist                                                  *)
(***************************************************************************)
\* the test taken one level late
IsSingleNodeLate(n) == n = 2

\* if (levels_needed == 1): "Single joinlist node, so we're done."
IsSingleNode(n) == n = 1

\* the test had it send every joinlist to the parallel search
TakesParallelSearchAlways(n) == TRUE

\* if (levels_needed % 2 == 0) parallel_join_search(..., 1, 2)
TakesParallelSearch(n) == n % 2 = 0

UsesGeqo(n) == geqo.enable /\ n >= geqo.threshold

\* return NULL: "nothing to do?"
MakeRelNothing ==
  /\ opc = "make_rel"
  /\ levels_needed <= 0
  /\ opc' = "returned"
  /\ ret' = "null"
  /\ UNCHANGED <<inputs, n_workers, p_type, oi, items, optimal, optw, root,
                 retrel, levels, workerVars>>

\* return (RelOptInfo *) linitial(initial_rels)
MakeRelSingle ==
  /\ opc = "make_rel"
  /\ levels_needed > 0
  /\ IsSingleNode(levels_needed)
  /\ opc' = "returned"
  /\ ret' = "rel"
  /\ retrel' = InitialRel(0)
  /\ UNCHANGED <<inputs, n_workers, p_type, oi, items, optimal, optw, root,
                 levels, workerVars>>

\* return (*join_search_hook) (root, levels_needed, initial_rels)
MakeRelHook ==
  /\ opc = "make_rel"
  /\ levels_needed > 0
  /\ ~ IsSingleNode(levels_needed)
  /\ hook
  /\ opc' = "returned"
  /\ ret' = "hook"
  /\ UNCHANGED <<inputs, n_workers, p_type, oi, items, optimal, optw, root,
                 retrel, levels, workerVars>>

\* return geqo(root, levels_needed, initial_rels)
MakeRelGeqo ==
  /\ opc = "make_rel"
  /\ levels_needed > 0
  /\ ~ IsSingleNode(levels_needed)
  /\ ~ hook
  /\ UsesGeqo(levels_needed)
  /\ opc' = "returned"
  /\ ret' = "geqo"
  /\ UNCHANGED <<inputs, n_workers, p_type, oi, items, optimal, optw, root,
                 retrel, levels, workerVars>>

\* return parallel_join_search(root, levels_needed, initial_rels, 1, 2)
MakeRelParallel ==
  /\ opc = "make_rel"
  /\ levels_needed > 0
  /\ ~ IsSingleNode(levels_needed)
  /\ ~ hook
  /\ ~ UsesGeqo(levels_needed)
  /\ TakesParallelSearch(levels_needed)
  /\ opc' = "create"
  /\ n_workers' = 1
  /\ p_type' = 2
  /\ UNCHANGED <<inputs, oi, items, optimal, optw, root, ret, retrel, levels,
                 workerVars>>

\* return standard_join_search(root, levels_needed, initial_rels)
MakeRelStandard ==
  /\ opc = "make_rel"
  /\ levels_needed > 0
  /\ ~ IsSingleNode(levels_needed)
  /\ ~ hook
  /\ ~ UsesGeqo(levels_needed)
  /\ ~ TakesParallelSearch(levels_needed)
  /\ opc' = "standard"
  /\ oi' = 2
  /\ UNCHANGED <<inputs, n_workers, p_type, items, optimal, optw, root, ret,
                 retrel, levels, workerVars>>

(***************************************************************************)
(* standard_join_search: one step per level.  join_search_one_level builds *)
(* at least one join relation at a level when the oracle accepts some join *)
(* of lower-level relations.                                               *)
(***************************************************************************)
LevelBuilt(links, lev, built) ==
  /\ links # "none"
  /\ \A k \in 2..(lev - 1) : k \in built

\* the relation standard_join_search returns: all relations joined (its
\* relids are a Bitmapset, which has no width; past the width of an int the
\* model writes the set of all n relations as -n)
StandardRel(n) ==
  [bm |-> IF Narrow(n) THEN FullBitmap(n) ELSE 0 - n, cost |-> 0, l |-> 0, r |-> 0]

\* one pass of the loop over lev
StandardLevel ==
  /\ opc = "standard"
  /\ oi <= levels_needed
  /\ levels' = IF LevelBuilt(oracle.links, oi, levels) THEN levels \cup {oi}
               ELSE levels
  /\ root' = IF LevelBuilt(oracle.links, oi, levels)
             THEN [root EXCEPT !.njoin = @ + 1] ELSE root
  /\ oi' = oi + 1
  /\ UNCHANGED <<inputs, n_workers, p_type, opc, items, optimal, optw, ret,
                 retrel, workerVars>>

\* elog(ERROR, "failed to build any %d-way joins") or the single final rel
StandardDone ==
  /\ opc = "standard"
  /\ oi > levels_needed
  /\ IF levels_needed \in levels
     THEN /\ opc' = "returned"
          /\ ret' = "rel"
          /\ retrel' = StandardRel(levels_needed)
     ELSE /\ opc' = "error"
          /\ ret' = "error"
          /\ retrel' = retrel
  /\ UNCHANGED <<inputs, n_workers, p_type, oi, items, optimal, optw, root,
                 levels, workerVars>>

(***************************************************************************)
(* parallel_join_search                                                    *)
(***************************************************************************)
\* items has levels_needed slots
SlotAllocated(i) == i < levels_needed

\* the body of the creation loop for i = oi; after the last one the thread
\* goes on to pthread_join(threads[0], ...)
CreateBody ==
  /\ items' = Append(items, oi)
  /\ wroot' = [wroot EXCEPT ![oi] = [src |-> oi, njoin |-> root.njoin]]
  /\ wpc' = [wpc EXCEPT ![oi] = "wait"]
  /\ oi' = IF oi + 1 < n_workers THEN oi + 1 ELSE 0
  /\ opc' = IF oi + 1 < n_workers THEN "create" ELSE "join"
  /\ UNCHANGED <<inputs, n_workers, p_type, optimal, optw, root, ret, retrel,
                 levels, mutex, constr, join_res, P, si, cands, ci, output>>

Crash ==
  /\ opc' = "crashed"
  /\ UNCHANGED <<inputs, n_workers, p_type, oi, items, optimal, optw, root,
                 ret, retrel, levels, workerVars>>

Create ==
  /\ opc = "create"
  /\ oi < n_workers
  /\ SlotAllocated(oi)
  /\ CreateBody

\* items[i] written past the end of the array: the write lands in memory the
\* allocator left unused, or it corrupts the heap
CreateOverflow ==
  /\ opc = "create"
  /\ oi < n_workers
  /\ ~ SlotAllocated(oi)
  /\ (CreateBody \/ Crash)

\* "that" is cheaper than "best", the output of worker 0
Cheaper(that, best) == that.optimal.cost < best.optimal.cost

\* pthread_join(threads[0], &best); optimal = best->optimal; *root = *(best->root)
JoinFirst ==
  /\ opc = "join"
  /\ oi = 0
  /\ wpc[0] = "done"
  /\ optimal' = output[0].optimal
  /\ optw' = 0
  /\ root' = output[0].root
  /\ oi' = 1
  /\ UNCHANGED <<inputs, n_workers, p_type, opc, items, ret, retrel, levels,
                 workerVars>>

\* the loop had it compare that with best without pthread_join(threads[i])
JoinNextEarly ==
  /\ opc = "join"
  /\ oi >= 1
  /\ oi < n_workers
  /\ IF Cheaper(output[oi], output[0])
     THEN /\ optimal' = output[oi].optimal
          /\ optw' = oi
          /\ root' = output[oi].root
     ELSE UNCHANGED <<optimal, optw, root>>
  /\ oi' = oi + 1
  /\ UNCHANGED <<inputs, n_workers, p_type, opc, items, ret, retrel, levels,
                 workerVars>>

\* for(i = 1; i < n_workers; i++): pthread_join(threads[i], &that) and the
\* comparison of that with best
JoinNext ==
  /\ opc = "join"
  /\ oi >= 1
  /\ oi < n_workers
  /\ wpc[oi] = "done"
  /\ IF Cheaper(output[oi], output[0])
     THEN /\ optimal' = output[oi].optimal
          /\ optw' = oi
          /\ root' = output[oi].root
     ELSE UNCHANGED <<optimal, optw, root>>
  /\ oi' = oi + 1
  /\ UNCHANGED <<inputs, n_workers, p_type, opc, items, ret, retrel, levels,
                 workerVars>>

\* pfree(items); return optimal
Return ==
  /\ opc = "join"
  /\ oi >= 1
  /\ oi >= n_workers
  /\ opc' = "returned"
  /\ ret' = "rel"
  /\ retrel' = optimal
  /\ UNCHANGED <<inputs, n_workers, p_type, oi, items, optimal, optw, root,
                 levels, workerVars>>

(***************************************************************************)
(* worker: every step is taken with the mutex held.                        *)
(***************************************************************************)
Running == opc \notin {"crashed", "error"}

\* the singleton loop had it stop one relation short
SeededTableShort(n) ==
  [b \in 0..FullBitmap(n) |->
     IF \E i \in 0..(n - 2) : b = Pow2(i)
     THEN InitialRel(CHOOSE i \in 0..(n - 2) : b = Pow2(i))
     ELSE NULL]

\* the DP table after "Initialize DP Table" and the singleton loop
SeededTable(n) ==
  [b \in 0..FullBitmap(n) |->
     IF \E i \in 0..(n - 1) : b = Pow2(i)
     THEN InitialRel(CHOOSE i \in 0..(n - 1) : b = Pow2(i))
     ELSE NULL]

WorkerConstraints(n, part_id, w_count, ptype) ==
  IF ptype = 2 THEN part_constraints(n, part_id, w_count)
  ELSE part_constraints_b(n, part_id, w_count)

WorkerJoinRes(n, cs, ptype) ==
  IF ptype = 2 THEN list_qsort(adm_join_results(n, cs), n)
  ELSE list_qsort(adm_join_results_b(n, cs), n)

\* the worker had it start without pthread_mutex_lock
WorkerStartUnlocked(w) ==
  /\ Running
  /\ wpc[w] = "wait"
  /\ Narrow(levels_needed)
  /\ mutex' = w
  /\ LET cs == WorkerConstraints(levels_needed, w, n_workers, p_type) IN
       /\ constr' = [constr EXCEPT ![w] = cs]
       /\ join_res' = [join_res EXCEPT ![w] = WorkerJoinRes(levels_needed, cs, p_type)]
  /\ P' = [P EXCEPT ![w] = SeededTable(levels_needed)]
  /\ si' = [si EXCEPT ![w] = 1]
  /\ wpc' = [wpc EXCEPT ![w] = "loop"]
  /\ UNCHANGED <<inputs, n_workers, p_type, callerVars, wroot, cands, ci, output>>

\* pthread_mutex_lock up to the sort of join_res
WorkerStart(w) ==
  /\ Running
  /\ wpc[w] = "wait"
  /\ mutex = -1
  /\ Narrow(levels_needed)
  /\ mutex' = w
  /\ LET cs == WorkerConstraints(levels_needed, w, n_workers, p_type) IN
       /\ constr' = [constr EXCEPT ![w] = cs]
       /\ join_res' = [join_res EXCEPT ![w] = WorkerJoinRes(levels_needed, cs, p_type)]
  /\ P' = [P EXCEPT ![w] = SeededTable(levels_needed)]
  /\ si' = [si EXCEPT ![w] = 1]
  /\ wpc' = [wpc EXCEPT ![w] = "loop"]
  /\ UNCHANGED <<inputs, n_workers, p_type, callerVars, wroot, cands, ci, output>>

\* levels_needed past the width of the bitmap: 1 << levels_needed is undefined
\* and the lists of admissible sets exhaust memory; the process dies or the
\* allocation error is raised inside the thread
WorkerWide(w) ==
  /\ Running
  /\ wpc[w] = "wait"
  /\ mutex = -1
  /\ ~ Narrow(levels_needed)
  /\ mutex' = w
  /\ opc' \in {"crashed", "error"}
  /\ UNCHANGED <<inputs, n_workers, p_type, oi, items, optimal, optw, root, ret,
                 retrel, levels, wpc, wroot, constr, join_res, P, si, cands, ci,
                 output>>

CurrentSet(w) == join_res[w][si[w]]

\* the loop over join_res has reached its end
EndOfSets(w) ==
  /\ Running
  /\ wpc[w] = "loop"
  /\ si[w] > Len(join_res[w])
  /\ wpc' = [wpc EXCEPT ![w] = "copy"]
  /\ UNCHANGED <<inputs, n_workers, p_type, callerVars, mutex, wroot, constr,
                 join_res, P, si, cands, ci, output>>

\* if(list_length(q) > 1) is false
SkipSingleton(w) ==
  /\ Running
  /\ wpc[w] = "loop"
  /\ si[w] <= Len(join_res[w])
  /\ Len(CurrentSet(w)) <= 1
  /\ si' = [si EXCEPT ![w] = @ + 1]
  /\ UNCHANGED <<inputs, n_workers, p_type, callerVars, mutex, wpc, wroot,
                 constr, join_res, P, cands, ci, output>>

EnterWith(w, cs) ==
  /\ cands' = [cands EXCEPT ![w] = cs]
  /\ ci' = [ci EXCEPT ![w] = 1]
  /\ wpc' = [wpc EXCEPT ![w] = "split"]
  /\ UNCHANGED <<inputs, n_workers, p_type, callerVars, mutex, wroot, constr,
                 join_res, P, si, output>>

NoGarbage(w) == [k \in 1..Len(constr[w]) |-> FALSE]

\* try_splits up to its candidate loop, every constraint inside the arrays
EnterSplits(w) ==
  /\ Running
  /\ wpc[w] = "loop"
  /\ si[w] <= Len(join_res[w])
  /\ Len(CurrentSet(w)) > 1
  /\ p_type = 2
  /\ ~ ReadsOutOfBounds(constr[w], levels_needed)
  /\ EnterWith(w, SplitCandidates(CurrentSet(w), constr[w], levels_needed,
                                  NoGarbage(w)))

\* try_splits up to its candidate loop when a constraint names an ordinal
\* past levels_needed: present[] is read past its end (any value), and
\* valid[] may be written past its end (no visible effect, or heap corruption)
EnterSplitsOutOfBounds(w) ==
  /\ Running
  /\ wpc[w] = "loop"
  /\ si[w] <= Len(join_res[w])
  /\ Len(CurrentSet(w)) > 1
  /\ p_type = 2
  /\ ReadsOutOfBounds(constr[w], levels_needed)
  /\ \E g \in [1..Len(constr[w]) -> BOOLEAN] :
       \/ EnterWith(w, SplitCandidates(CurrentSet(w), constr[w], levels_needed, g))
       \/ /\ WritesOutOfBounds(CurrentSet(w), constr[w], levels_needed, g)
          /\ Crash

\* try_splits_b up to its candidate loop
EnterSplitsB(w) ==
  /\ Running
  /\ wpc[w] = "loop"
  /\ si[w] <= Len(join_res[w])
  /\ Len(CurrentSet(w)) > 1
  /\ p_type = 3
  /\ EnterWith(w, SplitCandidatesB(CurrentSet(w), constr[w], levels_needed))

\* the candidate loop has reached its end: back to the loop over join_res
EndOfSplits(w) ==
  /\ Running
  /\ wpc[w] = "split"
  /\ ci[w] > Len(cands[w])
  /\ si' = [si EXCEPT ![w] = @ + 1]
  /\ wpc' = [wpc EXCEPT ![w] = "loop"]
  /\ UNCHANGED <<inputs, n_workers, p_type, callerVars, mutex, wroot, constr,
                 join_res, P, cands, ci, output>>

Cand(w) == cands[w][ci[w]]

CandBitmap(w) == Cand(w).l + Cand(w).r

LeftSplit(w) == P[w][Cand(w).l]

RightSplit(w) == P[w][Cand(w).r]

AtCandidate(w) == wpc[w] = "split" /\ ci[w] <= Len(cands[w])

\* the candidate is done and v is stored for the set and for its left side
RecordedBoth(w, v) ==
  /\ P' = [P EXCEPT ![w][CandBitmap(w)] = v, ![w][Cand(w).l] = v]
  /\ ci' = [ci EXCEPT ![w] = @ + 1]
  /\ UNCHANGED <<inputs, n_workers, p_type, callerVars, mutex, wpc, constr,
                 join_res, si, cands, output>>

\* the candidate is done and the entry of the set is the left input
RecordedLeft(w, v) ==
  /\ P' = [P EXCEPT ![w][CandBitmap(w)] = IF v = NULL THEN NULL ELSE LeftSplit(w)]
  /\ ci' = [ci EXCEPT ![w] = @ + 1]
  /\ UNCHANGED <<inputs, n_workers, p_type, callerVars, mutex, wpc, constr,
                 join_res, si, cands, output>>

\* the candidate is done and the table entry of the set is v
Recorded(w, v) ==
  /\ P' = [P EXCEPT ![w][CandBitmap(w)] = v]
  /\ ci' = [ci EXCEPT ![w] = @ + 1]
  /\ UNCHANGED <<inputs, n_workers, p_type, callerVars, mutex, wpc, constr,
                 join_res, si, cands, output>>

\* the two-armed if with join_rel == NULL: the first arm stores NULL into an
\* empty entry; the second arm reads a cost through the null pointer
RecordNull(w) ==
  IF P[w][CandBitmap(w)] = NULL
  THEN Recorded(w, NULL) /\ UNCHANGED wroot
  ELSE \/ Crash
       \/ \E v \in {P[w][CandBitmap(w)], NULL} : Recorded(w, v) /\ UNCHANGED wroot

\* one candidate whose two inputs are relations and which does not read a
\* cost through a null join_rel
SplitJoin(w) ==
  /\ Running
  /\ AtCandidate(w)
  /\ LeftSplit(w) # NULL
  /\ RightSplit(w) # NULL
  /\ LET join_rel == make_join_rel(oracle, levels_needed, LeftSplit(w), RightSplit(w))
         old == P[w][CandBitmap(w)]
     IN /\ ~ (join_rel = NULL /\ old # NULL)
        /\ Recorded(w, Better(old, join_rel))
        /\ wroot' = IF join_rel = NULL THEN wroot
                    ELSE [wroot EXCEPT ![w].njoin = @ + 1]

\* one candidate for which make_join_rel returns NULL while the entry of the
\* set already holds a relation
SplitNullJoin(w) ==
  /\ Running
  /\ AtCandidate(w)
  /\ LeftSplit(w) # NULL
  /\ RightSplit(w) # NULL
  /\ make_join_rel(oracle, levels_needed, LeftSplit(w), RightSplit(w)) = NULL
  /\ P[w][CandBitmap(w)] # NULL
  /\ RecordNull(w)

\* one candidate with an empty table entry as input: make_join_rel is handed
\* a null pointer; the process dies in it, or it returns NULL
SplitNullInput(w) ==
  /\ Running
  /\ AtCandidate(w)
  /\ (LeftSplit(w) = NULL \/ RightSplit(w) = NULL)
  /\ (Crash \/ RecordNull(w))

\* what a read through the null pointer P[(1 << levels_needed) - 1] yields
\* when the process survives it
GarbageRels == {[bm |-> 0, cost |-> c, l |-> 0, r |-> 0] : c \in {0, 1000}}

Finished(w, best) ==
  /\ output' = [output EXCEPT ![w] = [optimal |-> best, root |-> wroot[w]]]
  /\ P' = [P EXCEPT ![w] = <<>>]
  /\ mutex' = -1
  /\ wpc' = [wpc EXCEPT ![w] = "done"]
  /\ UNCHANGED <<inputs, n_workers, p_type, callerVars, wroot, constr, join_res,
                 si, cands, ci>>

\* *best = *(P[(1 << levels_needed) - 1]); pfree(P); ...; unlock; return opt
FinishCopy(w) ==
  /\ Running
  /\ wpc[w] = "copy"
  /\ P[w][FullBitmap(levels_needed)] # NULL
  /\ Finished(w, P[w][FullBitmap(levels_needed)])

\* the same with no entry for the full set: the copy reads through NULL
FinishNull(w) ==
  /\ Running
  /\ wpc[w] = "copy"
  /\ P[w][FullBitmap(levels_needed)] = NULL
  /\ (Crash \/ \E gr \in GarbageRels : Finished(w, gr))

WorkerStep(w) ==
  \/ WorkerStart(w)
  \/ WorkerWide(w)
  \/ EndOfSets(w)
  \/ SkipSingleton(w)
  \/ EnterSplits(w)
  \/ EnterSplitsOutOfBounds(w)
  \/ EnterSplitsB(w)
  \/ EndOfSplits(w)
  \/ SplitJoin(w)
  \/ SplitNullJoin(w)
  \/ SplitNullInput(w)
  \/ FinishCopy(w)
  \/ FinishNull(w)

Next ==
  \/ MakeRelNothing
  \/ MakeRelSingle
  \/ MakeRelHook
  \/ MakeRelGeqo
  \/ MakeRelParallel
  \/ MakeRelStandard
  \/ StandardLevel
  \/ StandardDone
  \/ Create
  \/ CreateOverflow
  \/ JoinFirst
  \/ JoinNext
  \/ Return
  \/ \E w \in Workers : WorkerStep(w)

Spec == Init /\ [][Next]_vars

(***************************************************************************)
(* The partition scenario: parallel_join_search on PartN relations with    *)
(* one worker or with PartWorkers workers, every join accepted.  No step   *)
(* of these runs reads through a null pointer or past an array.            *)
(***************************************************************************)
PartN == 6

PartWorkers == 4

InitPart ==
  /\ InitCommon
  /\ InitNoEval
  /\ oracle.links = "full"
  /\ entry = "parallel_join_search"
  /\ levels_needed = PartN
  /\ n_workers \in {1, PartWorkers}
  /\ p_type \in {2, 3}
  /\ hook = FALSE
  /\ geqo = [enable |-> FALSE, threshold |-> 12]
  /\ opc = "create"

WorkerStepPart(w) ==
  \/ WorkerStart(w)
  \/ EndOfSets(w)
  \/ SkipSingleton(w)
  \/ EnterSplits(w)
  \/ EnterSplitsB(w)
  \/ EndOfSplits(w)
  \/ SplitJoin(w)
  \/ FinishCopy(w)

NextPart ==
  \/ Create
  \/ JoinFirst
  \/ JoinNext
  \/ Return
  \/ \E w \in Workers : WorkerStepPart(w)

SpecPart == InitPart /\ [][NextPart]_vars

(***************************************************************************)
(* The planner's entry alone: make_rel_from_joinlist and what it calls     *)
(* (parallel_join_search with one worker, left deep; standard_join_search).*)
(***************************************************************************)
InitJoinlist == InitCommon /\ InitNoEval /\ InitMakeRel

WorkerStepJoinlist(w) ==
  \/ WorkerStart(w)
  \/ WorkerWide(w)
  \/ EndOfSets(w)
  \/ SkipSingleton(w)
  \/ EnterSplits(w)
  \/ EndOfSplits(w)
  \/ SplitJoin(w)
  \/ SplitNullJoin(w)
  \/ SplitNullInput(w)
  \/ FinishCopy(w)
  \/ FinishNull(w)

NextJoinlist ==
  \/ MakeRelNothing
  \/ MakeRelSingle
  \/ MakeRelHook
  \/ MakeRelGeqo
  \/ MakeRelParallel
  \/ MakeRelStandard
  \/ StandardLevel
  \/ StandardDone
  \/ Create
  \/ JoinFirst
  \/ Return
  \/ \E w \in Workers : WorkerStepJoinlist(w)

SpecJoinlist == InitJoinlist /\ [][NextJoinlist]_vars

\* the same with the threads scheduled fairly: a step that stays possible is
\* taken
SpecJoinlistFair == SpecJoinlist /\ WF_vars(NextJoinlist)

(***************************************************************************)
(* parallel_eval: the guide tree bt is a leaf <<relid>> or an internal     *)
(* node <<left, right>>.  The recursive walk try_merge_clump is one step;  *)
(* every call of force_merge_clump is one step.                            *)
(***************************************************************************)
\* the cost parallel_eval returns when no relation was formed
DBL_MAX == 1000000

is_leaf(t) == Len(t) = 1

RECURSIVE TreesOver(_)
\* the guide trees whose leaves are the relations of S, each once
TreesOver(S) ==
  IF Cardinality(S) = 1 THEN {<<x>> : x \in S}
  ELSE UNION {{<<a, b>> : a \in TreesOver(A), b \in TreesOver(S \ A)} :
                A \in (SUBSET S) \ {{}, S}}

Desires == {"all", "none", "chain"}

\* have_relevant_joinclause || have_join_order_restriction
desirable_join(des, n, outer_rel, inner_rel) ==
  CASE des = "all" -> TRUE
    [] des = "none" -> FALSE
    [] OTHER -> Linked("chain", outer_rel.bm, inner_rel.bm, n)

\* the two lists concatenated: list_concat(list1, list2)
Unmerged(one, two) ==
  [relList |-> one.relList \o two.relList,
   tried   |-> one.tried \o two.tried,
   built   |-> one.built \o two.built]

\* the node had it join two single clumps without asking desirable_join
MergeNodeEager(orc, des, n, one, two) ==
  IF Len(one.relList) > 1 \/ Len(two.relList) > 1 THEN Unmerged(one, two)
  ELSE LET rel1 == one.relList[1]
           rel2 == two.relList[1]
           joinrel == make_join_rel(orc, n, rel1, rel2)
           asked == Unmerged(one, two).tried \o << <<rel1.bm, rel2.bm>> >>
       IN IF joinrel # NULL
          THEN [relList |-> <<joinrel>>,
                tried   |-> asked,
                built   |-> Unmerged(one, two).built \o <<joinrel.bm>>]
          ELSE [Unmerged(one, two) EXCEPT !.tried = asked]

\* the else branch of try_merge_clump, list1 and list2 being resolved
MergeNode(orc, des, n, one, two) ==
  IF Len(one.relList) > 1 \/ Len(two.relList) > 1 THEN Unmerged(one, two)
  ELSE LET rel1 == one.relList[1]
           rel2 == two.relList[1]
           joinrel == make_join_rel(orc, n, rel1, rel2)
           asked == Unmerged(one, two).tried \o << <<rel1.bm, rel2.bm>> >>
       IN IF desirable_join(des, n, rel1, rel2)
          THEN IF joinrel # NULL
               THEN [relList |-> <<joinrel>>,
                     tried   |-> asked,
                     built   |-> Unmerged(one, two).built \o <<joinrel.bm>>]
               ELSE [Unmerged(one, two) EXCEPT !.tried = asked]
          ELSE Unmerged(one, two)

RECURSIVE try_merge_clump(_, _, _, _)
\* relList as returned, with the pairs handed to make_join_rel (tried) and
\* the join relations it added to root->join_rel_list (built)
try_merge_clump(orc, des, n, t) ==
  IF is_leaf(t)
  THEN [relList |-> <<InitialRel(t[1])>>, tried |-> <<>>, built |-> <<>>]
  ELSE MergeNode(orc, des, n, try_merge_clump(orc, des, n, t[1]),
                 try_merge_clump(orc, des, n, t[2]))

\* bms_num_members(rel->relids)
ClumpSize(r) == Cardinality(BitsOf(r.bm, levels_needed))

\* the search had it look at the first clump of the list only
FirstJoinableHead(L, r) ==
  IF L # <<>> /\ make_join_rel(oracle, levels_needed, L[1], r) # NULL
  THEN 1 ELSE 0

\* the position of the first old_rel of the list that rel can be joined to,
\* 0 when the foreach ends without one
FirstJoinable(L, r) ==
  LET ok == {k \in 1..Len(L) :
               make_join_rel(oracle, levels_needed, L[k], r) # NULL}
  IN IF ok = {} THEN 0 ELSE CHOOSE k \in ok : \A j \in ok : k <= j

\* the removal had it leave the list as it was
DeleteCellKept(L, k) == L

\* list_delete_cell
DeleteCell(L, k) == SubSeq(L, 1, k - 1) \o SubSeq(L, k + 1, Len(L))

RECURSIVE InsertAfter(_, _, _)
\* the for(;;) loop: the cell after which rel belongs
InsertAfter(L, r, lc) ==
  IF lc + 1 > Len(L) \/ ClumpSize(r) > ClumpSize(L[lc + 1]) THEN lc
  ELSE InsertAfter(L, r, lc + 1)

\* the insertion had it append every clump
InsertClumpLast(L, r) == Append(L, r)

\* the end of force_merge_clump: rel is put into the list
InsertClump(L, r) ==
  IF L = <<>> \/ ClumpSize(r) = 1 THEN Append(L, r)
  ELSE IF ClumpSize(r) > ClumpSize(L[1]) THEN <<r>> \o L
  ELSE LET lc == InsertAfter(L, r, 1)
       IN SubSeq(L, 1, lc) \o <<r>> \o SubSeq(L, lc + 1, Len(L))

\* the restore had it leave the list as the evaluation grew it
list_keep(L, new_size) == L

\* list_truncate(list, new_size)
list_truncate(L, new_size) == SubSeq(L, 1, new_size)

\* the test had it take the first clump whenever any is left
FormedAny(L) == Len(L) >= 1

\* Did we succeed in forming a single join relation?
FormedSingle(L) == Len(L) = 1

\* parallel_eval called on a guide tree over all the relations
InitEval ==
  /\ InitCommon
  /\ entry = "parallel_eval"
  /\ levels_needed \in 1..MaxN
  /\ n_workers = 0
  /\ p_type = 0
  /\ hook = FALSE
  /\ geqo = [enable |-> FALSE, threshold |-> 12]
  /\ opc = "eval"
  /\ bt \in TreesOver(0..(levels_needed - 1))
  /\ desire \in Desires
  /\ epc = "idle"
  /\ eroot \in {[join_rel_list |-> <<>>, join_rel_hash |-> 0],
                [join_rel_list |-> <<3>>, join_rel_hash |-> 1]}
  /\ saved = [length |-> 0, hash |-> 0]
  /\ relList = <<>>
  /\ frelList = <<>>
  /\ fi = 0
  /\ clump = NULL
  /\ tried = <<>>
  /\ outcomes = <<>>

searchVars == <<n_workers, p_type, callerVars, workerVars>>

\* savelength, savehash, root->join_rel_hash = NULL
EvalEnter ==
  /\ epc = "idle"
  /\ saved' = [length |-> Len(eroot.join_rel_list), hash |-> eroot.join_rel_hash]
  /\ eroot' = [eroot EXCEPT !.join_rel_hash = 0]
  /\ relList' = <<>>
  /\ frelList' = <<>>
  /\ tried' = <<>>
  /\ epc' = "walk"
  /\ UNCHANGED <<args, searchVars, bt, desire, fi, clump, outcomes>>

\* relList = try_merge_clump(...); if (list_length(relList) > 1) frelList = NIL
EvalWalk ==
  /\ epc = "walk"
  /\ LET walk == try_merge_clump(oracle, desire, levels_needed, bt) IN
       /\ relList' = walk.relList
       /\ tried' = walk.tried
       /\ eroot' = [eroot EXCEPT !.join_rel_list = @ \o walk.built]
       /\ IF Len(walk.relList) > 1
          THEN /\ epc' = "force"
               /\ fi' = 1
               /\ clump' = walk.relList[1]
          ELSE /\ epc' = "formed"
               /\ UNCHANGED <<fi, clump>>
  /\ frelList' = <<>>
  /\ UNCHANGED <<args, searchVars, bt, desire, saved, outcomes>>

\* the merge had it put the enlarged clump into the list at once
ForceMergeJoinOnce ==
  /\ epc = "force"
  /\ FirstJoinable(frelList, clump) > 0
  /\ LET k == FirstJoinable(frelList, clump)
         joinrel == make_join_rel(oracle, levels_needed, frelList[k], clump)
     IN /\ frelList' = InsertClump(DeleteCell(frelList, k), joinrel)
        /\ eroot' = [eroot EXCEPT !.join_rel_list = Append(@, joinrel.bm)]
  /\ IF fi < Len(relList)
     THEN /\ fi' = fi + 1
          /\ clump' = relList[fi + 1]
          /\ UNCHANGED <<epc, relList>>
     ELSE /\ relList' = frelList'
          /\ clump' = NULL
          /\ epc' = "formed"
          /\ UNCHANGED fi
  /\ UNCHANGED <<args, searchVars, bt, desire, saved, tried, outcomes>>

\* one call of force_merge_clump that finds a clump to join rel to: the old
\* clump leaves the list and the call recurs on the join
ForceMergeJoin ==
  /\ epc = "force"
  /\ FirstJoinable(frelList, clump) > 0
  /\ LET k == FirstJoinable(frelList, clump)
         joinrel == make_join_rel(oracle, levels_needed, frelList[k], clump)
     IN /\ frelList' = DeleteCell(frelList, k)
        /\ clump' = joinrel
        /\ eroot' = [eroot EXCEPT !.join_rel_list = Append(@, joinrel.bm)]
  /\ UNCHANGED <<args, searchVars, bt, desire, epc, saved, relList, fi, tried,
                 outcomes>>

\* one call of force_merge_clump that finds none: rel is inserted, and the
\* foreach of construct_rel_based_on_plan moves on or ends
ForceMergeInsert ==
  /\ epc = "force"
  /\ FirstJoinable(frelList, clump) = 0
  /\ frelList' = InsertClump(frelList, clump)
  /\ IF fi < Len(relList)
     THEN /\ fi' = fi + 1
          /\ clump' = relList[fi + 1]
          /\ UNCHANGED <<epc, relList>>
     ELSE /\ relList' = frelList'
          /\ clump' = NULL
          /\ epc' = "formed"
          /\ UNCHANGED fi
  /\ UNCHANGED <<args, searchVars, bt, desire, eroot, saved, tried, outcomes>>

\* the return had it leave root->join_rel_hash cleared
EvalReturnNoHash ==
  /\ epc = "formed"
  /\ LET joinrel == IF FormedSingle(relList) THEN relList[1] ELSE NULL
         cost == IF joinrel # NULL THEN joinrel.cost ELSE DBL_MAX
         restored == [join_rel_list |-> list_truncate(eroot.join_rel_list, saved.length),
                      join_rel_hash |-> 0]
     IN /\ eroot' = restored
        /\ outcomes' = Append(outcomes, [bm |-> joinrel.bm, cost |-> cost,
                                         root |-> restored])
  /\ epc' = "done"
  /\ UNCHANGED <<args, searchVars, bt, desire, saved, relList, frelList, fi,
                 clump, tried>>

\* the return of construct_rel_based_on_plan, the cost, list_truncate,
\* root->join_rel_hash = savehash, return cost
EvalReturn ==
  /\ epc = "formed"
  /\ LET joinrel == IF FormedSingle(relList) THEN relList[1] ELSE NULL
         cost == IF joinrel # NULL THEN joinrel.cost ELSE DBL_MAX
         restored == [join_rel_list |-> list_truncate(eroot.join_rel_list, saved.length),
                      join_rel_hash |-> saved.hash]
     IN /\ eroot' = restored
        /\ outcomes' = Append(outcomes, [bm |-> joinrel.bm, cost |-> cost,
                                         root |-> restored])
  /\ epc' = "done"
  /\ UNCHANGED <<args, searchVars, bt, desire, saved, relList, frelList, fi,
                 clump, tried>>

\* parallel_eval is called once more with the same arguments
EvalAgain ==
  /\ epc = "done"
  /\ Len(outcomes) < 2
  /\ epc' = "idle"
  /\ UNCHANGED <<args, searchVars, bt, desire, eroot, saved, relList, frelList,
                 fi, clump, tried, outcomes>>

NextEval ==
  \/ EvalEnter
  \/ EvalWalk
  \/ ForceMergeJoin
  \/ ForceMergeInsert
  \/ EvalReturn
  \/ EvalAgain

SpecEval == InitEval /\ [][NextEval]_vars

(***************************************************************************)
(* Properties.                                                             *)
(***************************************************************************)
Started(w) == wpc[w] \notin {"none", "wait"}

WorkerIds == 0..(n_workers - 1)

SearchReturned == opc = "returned" /\ ret = "rel" /\ n_workers >= 1

\* C1: for 2 <= N <= 32, either variant and every worker count (here: every
\* count the items array has a slot for), with an oracle that accepts every
\* join, parallel_join_search does not fail and what it returns is a relation
\* whose bitmap is the full set 2^N - 1.
C1_FullCoverage ==
  (/\ entry = "parallel_join_search"
   /\ levels_needed >= 2
   /\ levels_needed <= IntBits
   /\ n_workers <= levels_needed
   /\ oracle.links = "full")
  => /\ Running
     /\ ret # "pending" => (ret = "rel" /\ retrel.bm = FullBitmap(levels_needed))

\* every worker returned a relation over the full set
AllOutputsFull ==
  \A v \in WorkerIds : output[v].optimal.bm = FullBitmap(levels_needed)

\* C2: when parallel_join_search returns after joining all W workers, each of
\* which returned a relation, the relation it returns and the planner state
\* it copied into root are those of one worker whose cost is the minimum of
\* the W costs.
C2_MinimumAdopted ==
  (SearchReturned /\ Narrow(levels_needed) /\ AllOutputsFull)
  => /\ optw \in WorkerIds
     /\ retrel = output[optw].optimal
     /\ root = output[optw].root
     /\ \A v \in WorkerIds : retrel.cost <= output[v].optimal.cost

\* one pass of the candidate loop of try_splits / try_splits_b, when no
\* pointer it reads is null
TryCandidate(T, cand, orc, n) ==
  LET b == cand.l + cand.r
  IN [T EXCEPT ![b] = Better(T[b], make_join_rel(orc, n, T[cand.l], T[cand.r]))]

RECURSIVE FoldCands(_, _, _, _, _)
\* the candidate loop from pass k on; each pass is evaluated before the next
FoldCands(T, c, k, orc, n) ==
  IF k > Len(c) THEN T
  ELSE LET after == TryCandidate(T, c[k], orc, n)
       IN IF after = T THEN FoldCands(T, c, k + 1, orc, n)
          ELSE FoldCands(after, c, k + 1, orc, n)

\* one pass of the loop of worker over join_res
TrySet(T, sub_rels, cs, orc, n, ptype) ==
  IF Len(sub_rels) <= 1 THEN T
  ELSE LET c == IF ptype = 2
                THEN SplitCandidates(sub_rels, cs, n, [j \in 1..Len(cs) |-> FALSE])
                ELSE SplitCandidatesB(sub_rels, cs, n)
       IN FoldCands(T, c, 1, orc, n)

RECURSIVE FoldSets(_, _, _, _, _, _, _)
\* the loop of worker over join_res from pass k on
FoldSets(T, sets, k, cs, orc, n, ptype) ==
  IF k > Len(sets) THEN T
  ELSE LET after == TrySet(T, sets[k], cs, orc, n, ptype)
       IN IF after = T THEN FoldSets(T, sets, k + 1, cs, orc, n, ptype)
          ELSE FoldSets(after, sets, k + 1, cs, orc, n, ptype)

\* the cost of the relation the single worker of a one-worker search returns
SingleWorkerCost(n, orc, ptype) ==
  LET cs   == WorkerConstraints(n, 0, 1, ptype)
      sets == WorkerJoinRes(n, cs, ptype)
  IN FoldSets(SeededTable(n), sets, 1, cs, orc, n, ptype)[FullBitmap(n)].cost

\* C3: on the same PartN relations and the same oracle, the search with
\* PartWorkers workers returns a winner of the cost the search with one
\* worker returns.
C3_SameCostAsOneWorker ==
  SearchReturned => retrel.cost = SingleWorkerCost(levels_needed, oracle, p_type)

\* the positions 0..n-1 the n relations take in a left-deep join order
Orders(n) ==
  {f \in [0..(n - 1) -> 0..(n - 1)] : \A a, b \in 0..(n - 1) : f[a] = f[b] => a = b}

\* order f joins q1 before q2 for every constraint (q1, q2) of cs
Satisfies(f, cs) ==
  \A k \in 1..Len(cs) :
    (cs[k][1] \in DOMAIN f /\ cs[k][2] \in DOMAIN f) => f[cs[k][1]] < f[cs[k][2]]

\* C4: once every one of the W workers has its constraint list, every
\* left-deep order of the N relations satisfies the constraint list of at
\* least one worker.
C4_PartitionsCoverOrders ==
  (/\ entry = "parallel_join_search"
   /\ p_type = 2
   /\ levels_needed \in 2..MaxN
   /\ \A w \in WorkerIds : Started(w))
  => \A f \in Orders(levels_needed) : \E w \in WorkerIds : Satisfies(f, constr[w])

\* C5: four relations, a chain oracle, one worker, left-deep: the search does
\* not fail, and it returns the relation of bitmap 2^4 - 1 whose last join the
\* oracle accepts.
C5_ChainScenario ==
  (/\ entry = "parallel_join_search"
   /\ levels_needed = 4
   /\ n_workers = 1
   /\ p_type = 2
   /\ oracle.links = "chain")
  => /\ Running
     /\ ret # "pending" =>
          /\ ret = "rel"
          /\ retrel.bm = FullBitmap(4)
          /\ Linked("chain", retrel.l, retrel.r, 4)

\* the step is one of worker w, the holder of the mutex, once every thread
\* has been created
StepOf(w) == opc = "join" /\ mutex = w

\* C6: a worker that ends its loop with no entry for the full set reports the
\* error (no legal join order) and returns nothing read from the missing
\* entry, and a candidate split with a missing entry on one side is passed
\* over: nothing fails and the table is left as it is.
C6_MissingEntryNeverUsed ==
  [][\A w \in Workers :
       /\ (/\ StepOf(w)
           /\ wpc[w] = "copy"
           /\ P[w][FullBitmap(levels_needed)] = NULL
           /\ (wpc'[w] # "copy" \/ opc' = "crashed"))
          => (opc' = "error" /\ ret' = "error" /\ output' = output)
       /\ (/\ StepOf(w)
           /\ AtCandidate(w)
           /\ (LeftSplit(w) = NULL \/ RightSplit(w) = NULL)
           /\ (ci'[w] # ci[w] \/ opc' = "crashed"))
          => (opc' = opc /\ P' = P)]_vars

\* C7: at a candidate split whose two sides are relations and for which
\* make_join_rel returns no relation, nothing fails and the entry of the set
\* keeps its value, also when it already holds a relation.
C7_NullJoinKeepsEntry ==
  [][\A w \in Workers :
       (/\ StepOf(w)
        /\ AtCandidate(w)
        /\ LeftSplit(w) # NULL
        /\ RightSplit(w) # NULL
        /\ make_join_rel(oracle, levels_needed, LeftSplit(w), RightSplit(w)) = NULL
        /\ (ci'[w] # ci[w] \/ opc' = "crashed"))
       => (opc' = opc /\ P' = P)]_vars

\* C8: with a worker count the items array holds, once one worker has
\* returned a relation over the full set the search does not fail, and what
\* it returns is a relation over the full set, whatever the others find.
C8_OneSuccessSuffices ==
  (/\ entry = "parallel_join_search"
   /\ Narrow(levels_needed)
   /\ n_workers <= levels_needed
   /\ \E w \in WorkerIds :
        wpc[w] = "done" /\ output[w].optimal.bm = FullBitmap(levels_needed))
  => /\ Running
     /\ ret # "pending" => (ret = "rel" /\ retrel.bm = FullBitmap(levels_needed))

\* C9: with more relations than the bitmap has bits, the search the planner
\* reaches is refused: no worker thread is ever created, no table and no
\* level is built, no join is requested, and nothing but the error is
\* returned.
C9_TooManyRelationsRefused ==
  (/\ levels_needed > IntBits
   /\ entry = "make_rel_from_joinlist" => (~ hook /\ ~ UsesGeqo(levels_needed)))
  => /\ \A w \in Workers : wpc[w] = "none" /\ P[w] = <<>>
     /\ items = <<>>
     /\ levels = {}
     /\ root.njoin = 0
     /\ ret \in {"pending", "error"}

\* C10: make_rel_from_joinlist on a joinlist of one node returns that one
\* relation; neither parallel_join_search nor standard_join_search is
\* entered, no thread is created, no table is built, no join is requested.
C10_SingleRelation ==
  (entry = "make_rel_from_joinlist" /\ levels_needed = 1)
  => /\ opc \in {"make_rel", "returned"}
     /\ n_workers = 0
     /\ \A w \in Workers : wpc[w] = "none" /\ P[w] = <<>>
     /\ items = <<>>
     /\ levels = {}
     /\ root.njoin = 0
     /\ ret \in {"pending", "rel"}
     /\ ret = "rel" => retrel = InitialRel(0)

\* C10 in action: the call with one node has returned, with the hook installed
C10_SingleRelationReturned ==
  /\ entry = "make_rel_from_joinlist"
  /\ levels_needed = 1
  /\ hook
  /\ opc = "returned"
  /\ ret = "rel"

\* the entries two tables of worker w have in common before and after a step
Entries(w) == (DOMAIN P[w]) \cap (DOMAIN P'[w])

\* the bitmap of the set worker w is splitting
SetBitmap(w) == ListBitmap(CurrentSet(w))

\* both sides of candidate k of worker w have an entry
HasInputs(w, k) ==
  P[w][cands[w][k].l] # NULL /\ P[w][cands[w][k].r] # NULL

\* the relation make_join_rel returns for candidate k of worker w
JoinOf(w, k) ==
  make_join_rel(oracle, levels_needed, P[w][cands[w][k].l], P[w][cands[w][k].r])

\* C11: in every step, for every worker and every bitmap B whose entry is a
\* relation before and after the step, the cost of the relation recorded for
\* B after the step is not higher than before.
C11_CostNeverIncreases ==
  [][\A w \in Workers : \A b \in Entries(w) :
       (P[w][b] # NULL /\ P'[w][b] # NULL) => P'[w][b].cost <= P[w][b].cost]_vars

\* C11 in action: the first candidate of a set was recorded and a later one
\* has replaced it at a lower cost
C11_EntryLowered ==
  \E w \in Workers :
    /\ wpc[w] = "split"
    /\ ci[w] > 1
    /\ HasInputs(w, 1)
    /\ JoinOf(w, 1) # NULL
    /\ P[w][SetBitmap(w)] # NULL
    /\ P[w][SetBitmap(w)].cost < JoinOf(w, 1).cost

\* C12: a candidate whose join is a relation and which finds a relation
\* recorded for its set replaces it when its cost is strictly lower and
\* leaves it in place otherwise, also at equal cost.
C12_StrictlyLowerReplaces ==
  [][\A w \in Workers :
       (/\ AtCandidate(w)
        /\ ci'[w] = ci[w] + 1
        /\ HasInputs(w, ci[w])
        /\ JoinOf(w, ci[w]) # NULL
        /\ P[w][SetBitmap(w)] # NULL)
       => P'[w][SetBitmap(w)] =
            IF JoinOf(w, ci[w]).cost < P[w][SetBitmap(w)].cost
            THEN JoinOf(w, ci[w]) ELSE P[w][SetBitmap(w)]]_vars

\* C12 in action: the candidate just tried costs what the recorded relation
\* costs, and the recorded relation is the one found first
C12_TieKeepsFirst ==
  \E w \in Workers :
    /\ wpc[w] = "split"
    /\ ci[w] > 2
    /\ HasInputs(w, ci[w] - 1)
    /\ JoinOf(w, ci[w] - 1) # NULL
    /\ P[w][SetBitmap(w)] # NULL
    /\ P[w][SetBitmap(w)].cost = JoinOf(w, ci[w] - 1).cost
    /\ P[w][SetBitmap(w)].l # cands[w][ci[w] - 1].l

\* C13: a step changes no entry of a worker's table except, while the worker
\* splits a set S, the entry of bitmap(S).
C13_OnlyOwnEntryWritten ==
  [][\A w \in Workers : \A b \in Entries(w) :
       P'[w][b] # P[w][b] => (wpc[w] = "split" /\ b = SetBitmap(w))]_vars

\* C13 in action: the split of a set of three relations has recorded its
\* entry, next to the entries of its subsets
C13_EntryWritten ==
  \E w \in Workers :
    /\ wpc[w] = "split"
    /\ Len(cands[w]) >= 1
    /\ ci[w] > Len(cands[w])
    /\ Len(CurrentSet(w)) >= 3
    /\ P[w][SetBitmap(w)] # NULL
    /\ P[w][cands[w][1].l] # NULL


\* worker w has finished the candidate loop of try_splits for its current set
EndOfPass(w) == wpc[w] = "split" /\ ci[w] > Len(cands[w])

\* a further pass over the same candidates dereferences no null pointer:
\* both inputs are relations, and a null join_rel meets an empty entry only
SecondPassSafe(w) ==
  \A k \in 1..Len(cands[w]) :
    /\ HasInputs(w, k)
    /\ JoinOf(w, k) = NULL => P[w][SetBitmap(w)] = NULL

\* C14: with a deterministic oracle, a second invocation of the splitter on
\* the same set with the same constraints runs to its end and leaves the
\* table exactly as the first invocation left it.
C14_SecondPassSame ==
  \A w \in Workers :
    EndOfPass(w) =>
      /\ SecondPassSafe(w)
      /\ TrySet(P[w], CurrentSet(w), constr[w], oracle, levels_needed, p_type) = P[w]

\* the table is a fixed point of every second pass that runs to its end
C14_SafePassSame ==
  \A w \in Workers :
    (EndOfPass(w) /\ SecondPassSafe(w)) =>
      TrySet(P[w], CurrentSet(w), constr[w], oracle, levels_needed, p_type) = P[w]


\* worker w is in the candidate loop of the left-deep try_splits and every
\* ordinal of its constraints indexes present[] and valid[] within bounds
InLeftDeepSplit(w) ==
  wpc[w] = "split" /\ p_type = 2 /\ ~ ReadsOutOfBounds(constr[w], levels_needed)

\* the ordinals of the current set that the loop tries on the right
RightHands(w) ==
  {u \in SeqToSet(CurrentSet(w)) :
     \E k \in 1..Len(cands[w]) : cands[w][k].r = Pow2(u)}

\* C15: in the left-deep splitter an ordinal u of S is tried as the
\* right-hand element iff there is no constraint (x, u) with x in S, x # u.
C15_TriedIffNoPredecessor ==
  \A w \in Workers :
    InLeftDeepSplit(w) =>
      RightHands(w) =
        {u \in SeqToSet(CurrentSet(w)) :
           ~ \E k \in 1..Len(constr[w]) :
               /\ constr[w][k][2] = u
               /\ constr[w][k][1] \in SeqToSet(CurrentSet(w))
               /\ constr[w][k][1] # u}

\* C15 as the code has it: an ordinal u of S is tried as the right-hand
\* element iff there is no constraint (u, y) with y in S, y # u, that is iff
\* u is not required to precede another member of S.
C15_TriedIffNoSuccessor ==
  \A w \in Workers :
    InLeftDeepSplit(w) =>
      RightHands(w) =
        {u \in SeqToSet(CurrentSet(w)) :
           ~ \E k \in 1..Len(constr[w]) :
               /\ constr[w][k][1] = u
               /\ constr[w][k][2] \in SeqToSet(CurrentSet(w))
               /\ constr[w][k][2] # u}

\* the loop has tried a candidate of a set that holds both ordinals of a
\* constraint
C15_ConstraintInsideSet ==
  \E w \in Workers :
    /\ InLeftDeepSplit(w)
    /\ ci[w] > 1
    /\ \E k \in 1..Len(constr[w]) :
         {constr[w][k][1], constr[w][k][2]} \subseteq SeqToSet(CurrentSet(w))


\* the least k with 2^k >= w_count
CeilLog2(w_count) ==
  CHOOSE k \in 0..IntBits : Pow2(k) >= w_count /\ (k = 0 \/ Pow2(k - 1) < w_count)

\* bit i of part_id
BitOf(part_id, i) == (part_id \div Pow2(i)) % 2

\* worker w has built its constraint list
HasConstraints(w) == Started(w) /\ Narrow(levels_needed)

\* C16: part_constraints and part_constraints_b return exactly ceil(log2 W)
\* constraints, none for W = 1; the i-th is over group i and bit i of part_id
\* selects its orientation: left-deep (2i, 2i+1) for 0 and (2i+1, 2i) for 1,
\* bushy (3i, 3i+1, 3i+2) for 0 and (3i+1, 3i, 3i+2) for 1.
C16_ConstraintsPerBit ==
  \A w \in Workers :
    HasConstraints(w) =>
      /\ Len(constr[w]) = CeilLog2(n_workers)
      /\ n_workers = 1 => constr[w] = <<>>
      /\ \A i \in 0..(Len(constr[w]) - 1) :
           constr[w][i + 1] =
             IF p_type = 2
             THEN IF BitOf(w, i) = 0 THEN <<2 * i, 2 * i + 1>>
                                     ELSE <<2 * i + 1, 2 * i>>
             ELSE IF BitOf(w, i) = 0 THEN <<3 * i, 3 * i + 1, 3 * i + 2>>
                                     ELSE <<3 * i + 1, 3 * i, 3 * i + 2>>

\* a worker of a three-worker search whose part_id has bit 1 set and bit 0
\* clear has built two constraints
C16_SecondBitSelects ==
  /\ n_workers = 3
  /\ HasConstraints(2)
  /\ Len(constr[2]) = 2


\* the non-empty subsets of 0..n-1 that hold the first element of every
\* constraint whose second element they hold
ClosedSubsets(n, cs) ==
  {S \in SUBSET (0..(n - 1)) :
     /\ S # {}
     /\ \A k \in 1..Len(cs) : cs[k][2] \in S => cs[k][1] \in S}

\* the list sets names exactly the members of family, each once
ListsExactly(sets, family) ==
  /\ {SeqToSet(sets[k]) : k \in 1..Len(sets)} = family
  /\ Len(sets) = Cardinality(family)
  /\ \A k \in 1..Len(sets) : Len(sets[k]) = Cardinality(SeqToSet(sets[k]))

\* worker w of a left-deep search has built its list of admissible sets
HasLeftDeepSets(w) == HasConstraints(w) /\ p_type = 2

\* C17: adm_join_results(N, constr) returns exactly the non-empty subsets S
\* of 0..N-1 such that for every constraint (before, after) of constr, after
\* in S implies before in S, each exactly once.
C17_ExactlyClosedSubsets ==
  \A w \in Workers :
    HasLeftDeepSets(w) =>
      ListsExactly(join_res[w], ClosedSubsets(levels_needed, constr[w]))

\* for an even number of relations the list is exactly the closed subsets
C17_EvenExactlyClosedSubsets ==
  \A w \in Workers :
    (HasLeftDeepSets(w) /\ levels_needed % 2 = 0) =>
      ListsExactly(join_res[w], ClosedSubsets(levels_needed, constr[w]))


\* the subsets of 0..n-1 of two or more ordinals
LargeSubsets(n) == {S \in SUBSET (0..(n - 1)) : Cardinality(S) >= 2}

\* the sets of two or more ordinals in the list of worker w
LargeSets(w) ==
  {SeqToSet(join_res[w][k]) :
     k \in {j \in 1..Len(join_res[w]) : Len(join_res[w][j]) >= 2}}

\* C18: with one worker the constraint set is empty and the generator
\* enumerates every subset of 0..N-1 of size two and up, for every N >= 2
\* and both variants, the full set among them.
C18_OneWorkerAllSubsets ==
  (n_workers = 1 /\ levels_needed >= 2 /\ HasConstraints(0)) =>
     /\ constr[0] = <<>>
     /\ LargeSets(0) = LargeSubsets(levels_needed)
     /\ (0..(levels_needed - 1)) \in LargeSets(0)

\* with one worker the constraint set is empty, and for N a multiple of the
\* group size every subset of size two and up is enumerated
C18_WholeGroupsAllSubsets ==
  (n_workers = 1 /\ levels_needed >= 2 /\ HasConstraints(0)
     /\ levels_needed % p_type = 0) =>
     /\ constr[0] = <<>>
     /\ LargeSets(0) = LargeSubsets(levels_needed)


\* a step of the merge of parallel_join_search: the result of worker oi is
\* taken, compared with best or copied into root
MergeStep == opc = "join" /\ oi' = oi + 1

Private(w) ==
  <<wpc[w], wroot[w], constr[w], join_res[w], P[w], si[w], cands[w], ci[w],
    output[w]>>

\* a step of the thread of worker w
ThreadStep(w) == wpc[w] # "none" /\ Private(w)' # Private(w)

\* worker w is between pthread_mutex_lock and pthread_mutex_unlock
InWorkerBody(w) == wpc[w] \in {"loop", "split", "copy"}

\* C20: during execution no worker reads or writes mutable state that another
\* worker or the orchestrator writes; its planner-state copy, constraint set
\* and DP table are private: in a search of two or more workers a step of a
\* worker changes nothing but that worker's own state.
C20_WorkersShareNothing ==
  [][\A w \in Workers :
       (ThreadStep(w) /\ n_workers >= 2) =>
         /\ mutex' = mutex
         /\ callerVars' = callerVars
         /\ \A v \in Workers \ {w} : Private(v)' = Private(v)]_vars

\* the copy of the planner state, the constraints, the admissible sets and the
\* DP table of a worker are changed by the steps of that worker only
C20_TablesPrivate ==
  [][\A w \in Workers :
       ThreadStep(w) => \A v \in Workers \ {w} : Private(v)' = Private(v)]_vars

\* the workers write the one mutex and run one at a time
C20_WorkersSerialized ==
  \A w \in Workers : InWorkerBody(w) =>
    /\ mutex = w
    /\ \A v \in Workers \ {w} : ~ InWorkerBody(v)


\* the bitmaps of two or more relations that index the table of worker w
JoinBitmaps(w) ==
  {b \in DOMAIN P[w] : Cardinality(BitsOf(b, levels_needed)) >= 2}

\* the relation e is what make_join_rel returns for two relations of table T
\* whose bitmaps are disjoint and together make up b
JoinedFrom(T, b, e) ==
  /\ e.bm = b
  /\ e.l > 0 /\ e.r > 0
  /\ BitsOf(e.l, levels_needed) \cap BitsOf(e.r, levels_needed) = {}
  /\ BitsOf(e.l, levels_needed) \cup BitsOf(e.r, levels_needed)
       = BitsOf(b, levels_needed)
  /\ T[e.l] # NULL /\ T[e.r] # NULL
  /\ e = make_join_rel(oracle, levels_needed, T[e.l], T[e.r])

\* C21: every non-empty entry of a DP table for a bitmap B of two or more
\* relations is the relation a successful oracle join returned for two
\* non-empty entries whose bitmaps are disjoint and whose union is B.
C21_EntriesAreJoins ==
  \A w \in Workers : \A b \in JoinBitmaps(w) :
    P[w][b] # NULL => JoinedFrom(P[w], b, P[w][b])

\* a table holds the join of a relation of two base relations with a third
C21_JoinOverJoin ==
  \E w \in Workers : \E b \in JoinBitmaps(w) :
    /\ P[w][b] # NULL
    /\ Cardinality(BitsOf(P[w][b].l, levels_needed)) >= 2


\* the singleton entries of table T are the initial relations
SingletonsSeeded(T) ==
  \A i \in 0..(levels_needed - 1) : T[Pow2(i)] = InitialRel(i)

\* C22: a worker sets the entry of 1 << i to the i-th input relation, for
\* every i below N, before its first splitter invocation, and no splitter
\* invocation writes a singleton entry afterwards: from the loop over the
\* admissible sets to the final copy every singleton entry is the input
\* relation, and a step that writes the table leaves the singletons alone.
C22_SingletonsStay ==
  \A w \in Workers : InWorkerBody(w) => SingletonsSeeded(P[w])

\* a worker has been through all its splitter invocations and has recorded a
\* join
C22_SplitsDone ==
  \E w \in Workers :
    /\ wpc[w] = "copy"
    /\ levels_needed >= 2
    /\ \E b \in JoinBitmaps(w) : P[w][b] # NULL


\* worker w is in the candidate loop of try_splits_b
InBushySplit(w) == wpc[w] = "split" /\ p_type = 3

\* the pair (bitmapl, bitmapr) divides the bitmap b in two non-empty parts
ProperSplit(c, b) ==
  /\ c.l > 0 /\ c.r > 0
  /\ BitsOf(c.l, levels_needed) \cap BitsOf(c.r, levels_needed) = {}
  /\ BitsOf(c.l, levels_needed) \cup BitsOf(c.r, levels_needed)
       = BitsOf(b, levels_needed)
  /\ c.l + c.r = b

\* C23: in the bushy splitter every evaluated pair (bitmapLeft, bitmapRight)
\* has both sides non-empty, the sides disjoint and their union equal to the
\* bitmap of S; the empty and the full split never reach the oracle.
C23_BushySplitsProper ==
  \A w \in Workers :
    InBushySplit(w) =>
      \A k \in 1..Len(cands[w]) : ProperSplit(cands[w][k], SetBitmap(w))

\* the bushy splitter has evaluated a pair whose left side holds two or more
\* relations
C23_WideLeftSideTried ==
  \E w \in Workers :
    /\ InBushySplit(w)
    /\ ci[w] > 1
    /\ Cardinality(BitsOf(cands[w][ci[w] - 1].l, levels_needed)) >= 2


\* the clumps are in order of non-increasing size
SizeDescending(L) ==
  \A j \in 1..(Len(L) - 1) : ClumpSize(L[j]) >= ClumpSize(L[j + 1])

\* what the last call of parallel_eval returned
LastOutcome == outcomes[Len(outcomes)]

\* C24: construct_rel_based_on_plan returns a relation iff exactly one clump
\* remains after the guide-tree walk followed by force-merging, and then it
\* is that clump; in every other case it returns no relation and
\* parallel_eval reports the cost DBL_MAX.
C24_RelationIffOneClump ==
  epc = "done" =>
    /\ LastOutcome.bm # NULL.bm <=> Len(relList) = 1
    /\ Len(relList) = 1 =>
         (LastOutcome.bm = relList[1].bm /\ LastOutcome.cost = relList[1].cost)
    /\ Len(relList) # 1 => LastOutcome.cost = DBL_MAX

\* an evaluation has returned the one clump that force-merging left
C24_ForcedToOneClump ==
  /\ epc = "done"
  /\ frelList # <<>>
  /\ Len(relList) = 1
  /\ LastOutcome.cost < DBL_MAX

\* C25: at every call of force_merge_clump that reaches the insertion step
\* frelList is sorted by non-increasing size immediately before the insertion
\* and again after it, for every sequence of clumps and every oracle.
C25_ClumpListSizeDescending ==
  /\ SizeDescending(frelList)
  /\ (epc = "force" /\ FirstJoinable(frelList, clump) = 0) =>
       SizeDescending(InsertClump(frelList, clump))

\* an insertion has put a larger clump before a smaller one
C25_LargerClumpFirst ==
  /\ Len(frelList) >= 2
  /\ ClumpSize(frelList[1]) > ClumpSize(frelList[2])

RECURSIVE InternalNodes(_)
\* the internal nodes of a guide tree
InternalNodes(t) ==
  IF is_leaf(t) THEN {}
  ELSE {t} \cup InternalNodes(t[1]) \cup InternalNodes(t[2])

\* the clumps the walk resolves the subtree t to
Resolved(t) == try_merge_clump(oracle, desire, levels_needed, t).relList

\* both children of t resolve to one clump each and the pair is desirable
JoinDue(t) ==
  /\ Len(Resolved(t[1])) = 1
  /\ Len(Resolved(t[2])) = 1
  /\ desirable_join(desire, levels_needed, Resolved(t[1])[1], Resolved(t[2])[1])

\* the walk handed the first clumps of the children of t to make_join_rel
Attempted(t) ==
  \E k \in 1..Len(tried) :
    tried[k] = <<Resolved(t[1])[1].bm, Resolved(t[2])[1].bm>>

\* the walk of the guide tree is over
Walked == epc \in {"force", "formed", "done"}

\* C27: in the guide-tree walk a join is attempted at an internal node only
\* when both children resolved to exactly one clump and the pair is
\* desirable; when either child has more than one clump, when the pair is not
\* desirable or when the join fails, the node's result is the left child's
\* clumps followed by the right child's clumps, all unmerged.
C27_JoinOnlyWhenDue ==
  Walked =>
    \A t \in InternalNodes(bt) :
      LET joinrel == make_join_rel(oracle, levels_needed,
                                   Resolved(t[1])[1], Resolved(t[2])[1])
      IN /\ Attempted(t) <=> JoinDue(t)
         /\ Resolved(t) = IF JoinDue(t) /\ joinrel # NULL THEN <<joinrel>>
                          ELSE Resolved(t[1]) \o Resolved(t[2])

\* a walk that attempted a join has left three or more clumps unmerged
C27_PostponedAndTried ==
  /\ epc = "force"
  /\ fi = 1
  /\ Len(tried) >= 1
  /\ Len(relList) >= 3


\* u is the first element of a constraint of worker w whose two ordinals are
\* both in the current set
FirstOfConstraintInside(w, u) ==
  \E k \in 1..Len(constr[w]) :
    /\ constr[w][k][1] = u
    /\ {constr[w][k][1], constr[w][k][2]} \subseteq SeqToSet(CurrentSet(w))

\* C28: in try_splits an ordinal u of S is skipped as right-hand element
\* exactly when u is the first element of some constraint whose two ordinals
\* are both in S; every other ordinal of S is tried, with the base relation
\* of 1 << u on the right and the entry of the bitmap of S without u on the
\* left.
C28_SkippedIffFirstOfConstraint ==
  \A w \in Workers :
    (wpc[w] = "split" /\ p_type = 2) =>
      /\ \A u \in SeqToSet(CurrentSet(w)) :
           u \notin RightHands(w) <=> FirstOfConstraintInside(w, u)
      /\ \A k \in 1..Len(cands[w]) :
           \E u \in SeqToSet(CurrentSet(w)) :
             /\ cands[w][k].r = Pow2(u)
             /\ cands[w][k].l = SetBitmap(w) - Pow2(u)
      /\ Len(cands[w]) = Cardinality(RightHands(w))

\* try_splits has tried a candidate of a set of three relations that holds
\* both ordinals of a constraint
C28_SkippedInsideLargerSet ==
  \E w \in Workers :
    /\ wpc[w] = "split" /\ p_type = 2
    /\ ci[w] > 1
    /\ Len(CurrentSet(w)) >= 3
    /\ \E u \in SeqToSet(CurrentSet(w)) : FirstOfConstraintInside(w, u)


\* the bitmaps of the sets of two or more ordinals that the loop of worker w
\* over join_res has passed
SplitBefore(w) ==
  {ListBitmap(join_res[w][j]) :
     j \in {i \in 1..(si[w] - 1) : Len(join_res[w][i]) >= 2}}

\* the bitmaps of the seeded singletons
SingletonBitmaps == {Pow2(i) : i \in 0..(levels_needed - 1)}

\* worker w enters its loop over join_res
AtFirstSet(w) == wpc[w] = "loop" /\ si[w] = 1

\* join_res of worker w is in order of size and holds no set of two or more
\* ordinals twice
EachSetOnceBySize(w) ==
  /\ \A j \in 1..(Len(join_res[w]) - 1) :
       Len(join_res[w][j]) <= Len(join_res[w][j + 1])
  /\ LET large == {j \in 1..Len(join_res[w]) : Len(join_res[w][j]) >= 2}
     IN Cardinality({ListBitmap(join_res[w][j]) : j \in large})
          = Cardinality(large)

\* what the candidates of the set being split read is a seeded singleton or
\* the entry of a set split before
ReadsSplitBefore(w) ==
  LET earlier == SingletonBitmaps \cup SplitBefore(w)
  IN \A k \in 1..Len(cands[w]) :
       cands[w][k].l \in earlier /\ cands[w][k].r \in earlier

\* C29: a worker invokes the splitter on its non-singleton admissible sets in
\* non-decreasing order of cardinality, once per set; every DP entry a
\* splitter call reads for a strict subset of S belongs to a set processed
\* earlier or to a seeded singleton, and no step writes such an entry again.
C29_SubsetsSplitBefore ==
  /\ [](\A w \in Workers :
          /\ AtFirstSet(w) => EachSetOnceBySize(w)
          /\ (wpc[w] = "split" /\ ci[w] = 1) => ReadsSplitBefore(w))
  /\ [][\A w \in Workers :
          InWorkerBody(w) =>
            /\ join_res'[w] = join_res[w]
            /\ (P'[w] # P[w] /\ P'[w] # <<>>) =>
                 LET earlier == SingletonBitmaps \cup SplitBefore(w)
                 IN \A b \in earlier : P'[w][b] = P[w][b]]_vars

\* a candidate with the entry of a set split before on its left has been
\* tried
C29_ReadsEarlierSet ==
  \E w \in Workers :
    /\ wpc[w] = "split"
    /\ ci[w] > 1
    /\ cands[w][ci[w] - 1].l \in SplitBefore(w)
    /\ P[w][SetBitmap(w)] # NULL


\* the list constrained_power_set_b builds for group i under the constraints
\* of worker w
GroupPowerSet(w, i) ==
  constrained_power_set_b(constr[w], 3 * i, 3 * i + 1, 3 * i + 2)

\* the non-empty subsets of the group i
GroupSubsets(i) == (SUBSET {3 * i, 3 * i + 1, 3 * i + 2}) \ {{}}

\* C30: in the bushy variant constrained_power_set_b yields, for a group
\* constrained by the tuple (a, b, c), every non-empty subset of {a, b, c}
\* except {b, c}, and for a group with no constraint all seven non-empty
\* subsets, each once.
C30_AllButSecondAndThird ==
  \A w \in Workers :
    (HasConstraints(w) /\ p_type = 3) =>
      \A i \in 0..Len(constr[w]) :
        ListsExactly(GroupPowerSet(w, i),
                     IF i < Len(constr[w])
                     THEN GroupSubsets(i)
                            \ {{constr[w][i + 1][2], constr[w][i + 1][3]}}
                     ELSE GroupSubsets(i))

\* a bushy worker has built its sets under a tuple that puts the second
\* ordinal of the group first
C30_SwappedTupleBuilt ==
  /\ p_type = 3
  /\ levels_needed >= 3
  /\ HasConstraints(1)
  /\ constr[1][1] = <<1, 0, 2>>
  /\ Len(join_res[1]) = 6


\* C31: at most one worker is between acquiring and releasing the global
\* mutex at any time: the bodies of the workers execute one after another.
\* A step of a worker in its body is taken while no other worker is in its
\* body, and a worker enters its body only when every other worker has not
\* begun or has returned.
C31_OneWorkerInBody ==
  /\ Cardinality({w \in Workers : InWorkerBody(w)}) <= 1
  /\ \A w \in Workers :
       InWorkerBody(w) =>
         /\ mutex = w
         /\ \A v \in Workers \ {w} : wpc[v] \in {"none", "wait", "done"}

\* a worker is in its body after another has returned and while a third is
\* waiting for the mutex
C31_SecondWorkerRuns ==
  \E w \in Workers : \E v \in Workers : \E u \in Workers :
    /\ InWorkerBody(w)
    /\ wpc[v] = "done"
    /\ wpc[u] = "wait"


\* C32: under fair scheduling every worker eventually acquires the mutex,
\* completes and releases it, and parallel_join_search eventually returns
\* after joining all threads, also when a worker's search finds no relation
\* for the full set: once the threads are being created, every worker
\* eventually is done and the search eventually returns.
C32_SearchEventuallyReturns ==
  (opc = "create" /\ levels_needed >= 2 /\ Narrow(levels_needed)) ~>
     (opc = "returned" /\ mutex = -1 /\ \A w \in WorkerIds : wpc[w] = "done")

\* the search returns whenever the process is not ended by a read through a
\* null pointer
C32_ReturnsUnlessCrashed ==
  (opc = "create") ~> (opc \in {"returned", "crashed", "error"})


\* C33: parallel_eval leaves root->join_rel_list with the length it had on
\* entry and root->join_rel_hash as it was on entry, whether or not a relation
\* was formed: the values saved on entry are the ones of the caller's root,
\* they are kept through the evaluation, and the return leaves the list as its
\* first savelength cells and the hash table as the saved one.
C33_RootRestored ==
  [][/\ (epc = "idle" /\ epc' # "idle") =>
          saved' = [length |-> Len(eroot.join_rel_list),
                    hash |-> eroot.join_rel_hash]
     /\ (epc # "idle" /\ epc' # "idle") => saved' = saved
     /\ (epc # "done" /\ epc' = "done") =>
          /\ Len(eroot'.join_rel_list) = saved.length
          /\ eroot'.join_rel_list = SubSeq(eroot.join_rel_list, 1, saved.length)
          /\ eroot'.join_rel_hash = saved.hash]_vars

\* an evaluation that built joins and formed no relation has returned to a
\* root that had a join relation and a hash table
C33_FailedEvalReturned ==
  /\ epc = "done"
  /\ outcomes[Len(outcomes)].cost = DBL_MAX
  /\ saved = [length |-> 1, hash |-> 1]
  /\ eroot = [join_rel_list |-> <<3>>, join_rel_hash |-> 1]
  /\ \E k \in 1..Len(relList) : ClumpSize(relList[k]) >= 2


\* a step of force_merge_clump that merges rel with a clump of the list
ForceMerged == epc = "force" /\ epc' = "force" /\ fi' = fi /\ clump' # clump

\* a step of force_merge_clump that puts rel into the list
ForceInserted == epc = "force" /\ (fi' = fi + 1 \/ epc' = "formed")

\* C34: in force_merge_clump, after a successful merge the existing clump is
\* removed from the list and the enlarged clump is again tried against every
\* remaining clump before it is inserted; the recursion ends because each
\* merge makes the list one clump shorter.  A merge step takes one clump out
\* of the list, continues with the join of that clump and rel and inserts
\* nothing; a clump is inserted only when no clump of the list joins with it.
C34_MergedClumpTriedAgain ==
  [][/\ ForceMerged =>
          /\ Len(frelList') = Len(frelList) - 1
          /\ \E k \in 1..Len(frelList) :
               /\ frelList' = DeleteCell(frelList, k)
               /\ clump' = make_join_rel(oracle, levels_needed, frelList[k], clump)
               /\ clump' # NULL
     /\ ForceInserted =>
          /\ \A k \in 1..Len(frelList) :
               make_join_rel(oracle, levels_needed, frelList[k], clump) = NULL
          /\ Len(frelList') = Len(frelList) + 1
          /\ \E k \in 1..Len(frelList') : frelList'[k] = clump
     /\ (epc = "force" /\ epc' # "formed") => (ForceMerged \/ ForceInserted)]_vars

\* a single relation taken from the walk has been merged twice in a row, the
\* second time as the enlarged clump
C34_EnlargedClumpMergedAgain ==
  /\ epc = "force"
  /\ ClumpSize(relList[fi]) = 1
  /\ ClumpSize(clump) >= 3


\* the oracle gives a join of two sets of relations in one order exactly when
\* it gives it in the other
SymmetricOracle ==
  \A lbm \in 1..FullBitmap(levels_needed), rbm \in 1..FullBitmap(levels_needed) :
    (BitsOf(lbm, levels_needed) \cap BitsOf(rbm, levels_needed) = {}) =>
      (Linked(oracle.links, lbm, rbm, levels_needed)
         <=> Linked(oracle.links, rbm, lbm, levels_needed))

\* C35: when force-merging ends with more than one clump, no two of the
\* remaining clumps can be joined, given that the oracle is deterministic and
\* symmetric: make_join_rel gives NULL for every two clumps of the final list,
\* in either order.
C35_RemainingClumpsUnjoinable ==
  (epc = "formed" /\ Len(relList) > 1 /\ SymmetricOracle) =>
    \A j \in 1..Len(relList), k \in 1..Len(relList) :
      j # k => make_join_rel(oracle, levels_needed, relList[j], relList[k]) = NULL

\* force-merging has ended with two clumps of two relations each under a
\* symmetric oracle
C35_TwoClumpsRemain ==
  /\ epc = "formed"
  /\ SymmetricOracle
  /\ Len(relList) = 2
  /\ ClumpSize(relList[1]) = 2
  /\ ClumpSize(relList[2]) = 2
  /\ frelList = relList


RECURSIVE TreeLeaves(_)
\* the relations at the leaves of a guide tree, left to right
TreeLeaves(t) ==
  IF is_leaf(t) THEN <<t[1]>> ELSE TreeLeaves(t[1]) \o TreeLeaves(t[2])

\* the clumps held after the walk: the merged list, the clump in hand and the
\* clumps of the walk not yet taken
ClumpsHeld ==
  IF epc = "force"
  THEN frelList \o <<clump>> \o SubSeq(relList, fi + 1, Len(relList))
  ELSE relList

\* C36: the clumps of a plan construction are pairwise disjoint and every
\* leaf the walk visited lies in exactly one clump, after the walk and through
\* force-merging; when construction succeeds the relation returned covers
\* exactly the union of all the leaves.
C36_ClumpsPartitionLeaves ==
  Walked =>
    /\ \A j \in 1..Len(ClumpsHeld), k \in 1..Len(ClumpsHeld) :
         j # k => BitsOf(ClumpsHeld[j].bm, levels_needed)
                    \cap BitsOf(ClumpsHeld[k].bm, levels_needed) = {}
    /\ \A x \in SeqToSet(TreeLeaves(bt)) :
         Cardinality({k \in 1..Len(ClumpsHeld) :
                        HasBit(ClumpsHeld[k].bm, x)}) = 1
    /\ \A k \in 1..Len(ClumpsHeld) :
         /\ ClumpsHeld[k].bm \in 1..FullBitmap(levels_needed)
         /\ BitsOf(ClumpsHeld[k].bm, levels_needed) \subseteq SeqToSet(TreeLeaves(bt))
    /\ (epc = "done" /\ LastOutcome.cost # DBL_MAX) =>
         LastOutcome.bm = ListBitmap(TreeLeaves(bt))

\* a construction over four relations that needed force-merging has returned
\* one relation
C36_ForceMergedToOne ==
  /\ epc = "done"
  /\ levels_needed = 4
  /\ LastOutcome.cost # DBL_MAX
  /\ LastOutcome.bm = 15
  /\ frelList = relList
  /\ frelList # <<>>


\* C37: for every N in 2..32 the table size 1 << N, the index (1 << N) - 1 of
\* the full set and every 1 << i for i < N are computed without overflow of
\* the 32-bit signed int, and the table is allocated and initialised with
\* exactly 2^N entries: a worker that has taken the mutex on 2..32 relations
\* has computed 1 << N within the int and holds a table over 0..2^N - 1.
C37_TableOfAllSubsets ==
  \A w \in Workers :
    (mutex = w /\ levels_needed \in 2..IntBits) =>
      /\ Narrow(levels_needed)
      /\ DOMAIN P[w] = 0..FullBitmap(levels_needed)


\* C38: every ordinal in a constraint that part_constraints(N, part_id, W)
\* returns for a part_id in 0..W-1 lies in 0..N-1, so that the lookups
\* present[q1], present[q2] and valid[q1] of try_splits stay within their
\* N-element arrays, for every N >= 2 and W >= 1: the constraints of a
\* left-deep worker name relations of the query only, already when there are
\* no more workers than relations.
C38_ConstraintOrdinalsInRange ==
  \A w \in Workers :
    (HasConstraints(w) /\ p_type = 2 /\ levels_needed >= 2
       /\ n_workers <= levels_needed) =>
      \A k \in 1..Len(constr[w]) :
        /\ constr[w][k][1] \in 0..(levels_needed - 1)
        /\ constr[w][k][2] \in 0..(levels_needed - 1)

\* C39: every items[i] written for i in 0..W-1 lies within the task array
\* that was allocated, for every W >= 1 and N >= 2: each task the caller has
\* filled in has a slot of the allocation.
C39_ItemsWithinAllocation ==
  (levels_needed >= 2 /\ n_workers >= 1) =>
    \A k \in 1..Len(items) : SlotAllocated(k - 1)


\* every relation of the query lies in one of the pairs (2i, 2i+1) with
\* 2i+1 < n that adm_join_results builds the admissible sets from
InSomePairGroup(n) ==
  \A x \in 0..(n - 1) :
    \E i \in 0..(n - 1) : 2 * i + 1 < n /\ x \in {2 * i, 2 * i + 1}

\* C40: with no join-search hook and GEQO not selected, make_rel_from_joinlist
\* calls parallel_join_search only for an even N >= 2, always with one worker
\* and the left-deep variant (p_type 2), and calls standard_join_search for
\* every odd N >= 3; hence parallel_join_search is never entered from it with
\* an N that leaves a relation outside every pair group.
C40_ParallelOnlyForEvenN ==
  /\ [](( /\ entry = "make_rel_from_joinlist"
          /\ (n_workers >= 1 \/ opc = "create" \/ \E w \in Workers : wpc[w] # "none"))
        => /\ ~ hook
           /\ ~ UsesGeqo(levels_needed)
           /\ levels_needed >= 2
           /\ levels_needed % 2 = 0
           /\ n_workers = 1
           /\ p_type = 2
           /\ InSomePairGroup(levels_needed)
           /\ \A w \in Workers : wpc[w] # "none" => w = 0)
  /\ [][(opc = "make_rel" /\ ~ hook /\ ~ UsesGeqo(levels_needed)) =>
          /\ (levels_needed >= 2 /\ levels_needed % 2 = 0) =>
               (opc' = "create" /\ n_workers' = 1 /\ p_type' = 2)
          /\ (levels_needed >= 3 /\ levels_needed % 2 = 1) =>
               (opc' = "standard" /\ n_workers' = 0)]_vars

\* make_rel_from_joinlist has sent four relations to the parallel search and
\* its one worker is at work
C40_FourRelationsSearched ==
  /\ entry = "make_rel_from_joinlist"
  /\ levels_needed = 4
  /\ n_workers = 1
  /\ p_type = 2
  /\ wpc[0] = "loop"
  /\ SeqToSet(Flatten(join_res[0])) = 0..3

=============================================================================
